---- MODULE Spec2Model ----
(***************************************************************************)
(* A model of the Google Ads MCP server (src/google_ads_mcp.py): the       *)
(* shared helpers (_validate_customer_id, _handle_google_ads_error,        *)
(* _check_and_truncate), the parameter schemas, and the tool handlers,     *)
(* each handler a sequence of steps between its remote calls.              *)
(*                                                                         *)
(* Text is a sequence of one-character strings.  The remote service is an  *)
(* external collaborator: each remote call either returns or raises, and   *)
(* the outcome is a nondeterministic input of the step that makes it.      *)
(***************************************************************************)
EXTENDS Integers, Sequences, FiniteSets, TLC

VARIABLES
    env,        \* the required secrets present in the process environment
    pc,         \* position of the current tool invocation
    tool,       \* the tool being invoked ("none" when idle)
    req,        \* the request, with the rows the remote holds for it
    calls,      \* remote calls issued by the current invocation, in order
    result,     \* what the invocation gave back to the caller
    linked,     \* remote: asset links of the asset group
    library,    \* remote: assets of the account's library
    upd,        \* update_asset_group_assets: its locals across the two steps
    creq,       \* create tools: the request and the handler's position
    sent,       \* remote: mutate calls received from the create tool
    budgets,    \* remote: campaign budgets created
    schedules,  \* remote: ad-schedule criteria of the campaign
    vIn,        \* customer-id check: the caller's string
    vOut,       \* customer-id check: schema and validator verdict
    gResp,      \* response guard: the rendered response
    gLimit,     \* response guard: the limit argument
    gOut,       \* response guard: the returned text
    eIn,        \* error handler: the exception it is given
    eOut,       \* error handler: the message it returns
    aRows,      \* asset performance: the rows as the remote returned them
    aReport,    \* asset performance: the report built from them
    mIn,        \* metrics: the raw values of a row
    mOut,       \* metrics: the derived and rendered values
    pIn,        \* list_campaigns: the request and the remote's campaigns
    pOut,       \* list_campaigns: the page returned
    criteria,   \* remote: ad-schedule criteria of one campaign, with ids
    setters,    \* set_campaign_schedule: the invocations under way
    tasks,      \* interleaved invocations: the locals of each
    qIn,        \* query building: the tool and its filter parameters
    qOut,       \* query building: the query text sent to the remote
    nIn,        \* negative keywords: the request
    nOut        \* negative keywords: the reply and the mutate calls made

vars == <<env, pc, tool, req, calls, result, linked, library, upd, creq,
          sent, budgets, schedules, vIn, vOut, gResp, gLimit, gOut, eIn,
          eOut, aRows, aReport, mIn, mOut, pIn, pOut, criteria, setters,
          tasks, qIn, qOut, nIn, nOut>>

pipeVars == <<env, pc, tool, req, calls, result>>
assetVars == <<linked, library, upd>>
createVars == <<creq, sent, budgets, schedules>>
validateVars == <<vIn, vOut>>
guardVars == <<gResp, gLimit, gOut>>
classifyVars == <<eIn, eOut>>
reportVars == <<aRows, aReport>>
metricVars == <<mIn, mOut>>
pageVars == <<pIn, pOut>>
scheduleVars == <<criteria, setters>>
taskVars == <<tasks>>
queryVars == <<qIn, qOut>>
negativeVars == <<nIn, nOut>>
laterVars == <<scheduleVars, taskVars, queryVars, negativeVars>>
helperVars == <<classifyVars, reportVars, metricVars, pageVars, laterVars>>

(***************************************************************************)
(* Text helpers                                                            *)
(***************************************************************************)

DigitChars == <<"0", "1", "2", "3", "4", "5", "6", "7", "8", "9">>

\* str.isdigit() on one character of the model's alphabet
IsDigit(c) == \E i \in 1..Len(DigitChars) : DigitChars[i] = c

\* str(n) for n >= 0
RECURSIVE DecimalString(_)
DecimalString(n) ==
    IF n < 10 THEN <<DigitChars[n + 1]>>
    ELSE DecimalString(n \div 10) \o <<DigitChars[(n % 10) + 1]>>

\* the "," grouping of the format spec {n:,} applied to a digit string
RECURSIVE GroupThousands(_)
GroupThousands(d) ==
    IF Len(d) <= 3 THEN d
    ELSE GroupThousands(SubSeq(d, 1, Len(d) - 3)) \o <<",">>
         \o SubSeq(d, Len(d) - 2, Len(d))

\* f"{n:,}"
FormatThousands(n) == GroupThousands(DecimalString(n))

\* sub in s
Contains(s, sub) ==
    \E i \in 0..(Len(s) - Len(sub)) : SubSeq(s, i + 1, i + Len(sub)) = sub

\* s.replace(c, "")
RECURSIVE RemoveChar(_, _)
RemoveChar(s, c) ==
    IF s = <<>> THEN <<>>
    ELSE IF Head(s) = c THEN RemoveChar(Tail(s), c)
    ELSE <<Head(s)>> \o RemoveChar(Tail(s), c)

\* s.strip() for the one whitespace character of the model's alphabet
RECURSIVE StripLeft(_)
StripLeft(s) ==
    IF s # <<>> /\ Head(s) = " " THEN StripLeft(Tail(s)) ELSE s

RECURSIVE StripRight(_)
StripRight(s) ==
    IF s # <<>> /\ s[Len(s)] = " " THEN StripRight(SubSeq(s, 1, Len(s) - 1))
    ELSE s

StripWhitespace(s) == StripRight(StripLeft(s))

(***************************************************************************)
(* Constants of the program                                                *)
(***************************************************************************)

CHARACTER_LIMIT == 25000

CUSTOMER_ID_LENGTH == 10

(***************************************************************************)
(* _check_and_truncate                                                     *)
(***************************************************************************)

WarningHead ==
    <<"\n", "\n", "U26A0", "UFE0F", " ", "*", "*", "R", "e", "s", "p", "o",
      "n", "s", "e", " ", "t", "r", "u", "n", "c", "a", "t", "e", "d", "*",
      "*", " ", "f", "r", "o", "m", " ">>

WarningTo == <<" ", "t", "o", " ">>

WarningTail ==
    <<" ", "c", "h", "a", "r", "a", "c", "t", "e", "r", "s", ".", " ", "U",
      "s", "e", " ", "f", "i", "l", "t", "e", "r", "s", ",", " ", "p", "a",
      "g", "i", "n", "a", "t", "i", "o", "n", ",", " ", "o", "r", " ", "r",
      "e", "d", "u", "c", "e", " ", "d", "a", "t", "e", " ", "r", "a", "n",
      "g", "e", " ", "t", "o", " ", "s", "e", "e", " ", "m", "o", "r", "e",
      " ", "d", "a", "t", "a", ".">>

\* mutant: the cut keeps one character too many
check_and_truncate_cut_late(response, limit) ==
    IF Len(response) <= limit THEN response
    ELSE SubSeq(response, 1, limit + 1)
         \o WarningHead \o FormatThousands(Len(response)) \o WarningTo
         \o FormatThousands(limit) \o WarningTail

check_and_truncate(response, limit) ==
    IF Len(response) <= limit THEN response
    ELSE LET truncated == SubSeq(response, 1, limit)
             warning == WarningHead \o FormatThousands(Len(response))
                        \o WarningTo \o FormatThousands(limit) \o WarningTail
         IN  truncated \o warning

(***************************************************************************)
(* Parameter schema of customer_id, and _validate_customer_id              *)
(***************************************************************************)

\* Field(..., min_length=10, max_length=10) under str_strip_whitespace=True:
\* the value the handler receives, or rejection by the schema
SchemaCustomerId(raw) ==
    LET s == StripWhitespace(raw)
    IN  IF Len(s) = CUSTOMER_ID_LENGTH
        THEN [ok |-> TRUE, value |-> s]
        ELSE [ok |-> FALSE, value |-> <<>>]

\* mutant: the length test is dropped
validate_customer_id_no_length(customer_id) ==
    LET stripped == RemoveChar(customer_id, "-")
    IN  IF \E i \in 1..Len(stripped) : ~IsDigit(stripped[i])
        THEN [ok |-> FALSE, value |-> <<>>, error |-> "digits", got |-> 0]
        ELSE [ok |-> TRUE, value |-> stripped, error |-> "none", got |-> 0]

\* the ValueError raised, or the formatted customer id returned
validate_customer_id(customer_id) ==
    LET stripped == RemoveChar(customer_id, "-")
    IN  IF Len(stripped) # CUSTOMER_ID_LENGTH
        THEN [ok |-> FALSE, value |-> <<>>, error |-> "length",
              got |-> Len(stripped)]
        ELSE IF \E i \in 1..Len(stripped) : ~IsDigit(stripped[i])
        THEN [ok |-> FALSE, value |-> <<>>, error |-> "digits", got |-> 0]
        ELSE [ok |-> TRUE, value |-> stripped, error |-> "none", got |-> 0]

(***************************************************************************)
(* Inputs                                                                  *)
(***************************************************************************)

\* longest customer-id string a caller sends in the model
MaxIdLen == 12

\* characters a caller may put among the digits
OddChars == {"-", "a", " "}

\* a string of n characters, digits except at positions p1 and p2
IdString(n, p1, c1, p2, c2) ==
    [i \in 1..n |-> IF i = p1 THEN c1
                    ELSE IF i = p2 THEN c2
                    ELSE DigitChars[(i % 10) + 1]]

CustomerIdInputs ==
    {IdString(n, p[1], c[1], p[2], c[2]) :
        n \in 0..MaxIdLen, p \in (0..MaxIdLen) \X (0..MaxIdLen),
        c \in OddChars \X OddChars}

\* how far from the limit the guarded responses' lengths lie
GuardSlack == 2

\* number of distinct contents per response length
GuardPatterns == 3

GuardLimits == {2, 999, 1000, 9999, CHARACTER_LIMIT}

ResponseChars == <<"a", "7", "b">>

ResponseText(len, p) ==
    [i \in 1..len |-> ResponseChars[((i + p) % Len(ResponseChars)) + 1]]

(***************************************************************************)
(* The variables a specification does not use keep their initial value     *)
(***************************************************************************)

NoResult == [kind |-> "none", class |-> "none", len |-> 0]

NoReq ==
    [customer_id |-> <<>>, response_format |-> "none", plan |-> <<>>,
     rows |-> "none", fields_ok |-> TRUE]

PipeIdle ==
    /\ env = {}
    /\ pc = "idle"
    /\ tool = "none"
    /\ req = NoReq
    /\ calls = <<>>
    /\ result = NoResult

AssetsIdle ==
    /\ linked = {}
    /\ library = {}
    /\ upd = [pc |-> "off"]

CreateIdle ==
    /\ creq = [pc |-> "off"]
    /\ sent = <<>>
    /\ budgets = 0
    /\ schedules = {}

ValidateIdle ==
    /\ vIn = <<>>
    /\ vOut = [done |-> FALSE]

GuardIdle ==
    /\ gResp = <<>>
    /\ gLimit = 0
    /\ gOut = [done |-> FALSE, text |-> <<>>]

ClassifyIdle ==
    /\ eIn = [type |-> "none"]
    /\ eOut = [done |-> FALSE]

ReportIdle ==
    /\ aRows = <<>>
    /\ aReport = [done |-> FALSE]

MetricIdle ==
    /\ mIn = [kind |-> "none"]
    /\ mOut = [done |-> FALSE]

PageIdle ==
    /\ pIn = [kind |-> "none"]
    /\ pOut = [done |-> FALSE]

ScheduleIdle ==
    /\ criteria = {}
    /\ setters = <<>>

TasksIdle == tasks = <<>>

QueryIdle ==
    /\ qIn = [kind |-> "none"]
    /\ qOut = [done |-> FALSE]

NegativeIdle ==
    /\ nIn = [kind |-> "none"]
    /\ nOut = [done |-> FALSE]

LaterIdle == ScheduleIdle /\ TasksIdle /\ QueryIdle /\ NegativeIdle

HelperIdle ==
    ClassifyIdle /\ ReportIdle /\ MetricIdle /\ PageIdle /\ LaterIdle

(***************************************************************************)
(* SpecValidate: the customer id from the caller's string to the tenant    *)
(* scope, through the schema and _validate_customer_id                     *)
(***************************************************************************)

InitValidate ==
    /\ vIn \in CustomerIdInputs
    /\ vOut = [done |-> FALSE]
    /\ PipeIdle /\ AssetsIdle /\ CreateIdle /\ GuardIdle
    /\ HelperIdle

\* the schema, then the first statement of every handler that takes a
\* customer id
CheckCustomerId ==
    /\ ~vOut.done
    /\ LET schema == SchemaCustomerId(vIn)
           checked == IF schema.ok THEN validate_customer_id(schema.value)
                      ELSE [ok |-> FALSE, value |-> <<>>, error |-> "schema",
                            got |-> 0]
       IN  vOut' = [done |-> TRUE, schema_ok |-> schema.ok,
                    ok |-> schema.ok /\ checked.ok,
                    scope |-> checked.value,
                    error |-> checked.error, got |-> checked.got]
    /\ UNCHANGED <<vIn, pipeVars, assetVars, createVars, guardVars,
                   helperVars>>

NextValidate == CheckCustomerId

SpecValidate == InitValidate /\ [][NextValidate]_vars

(***************************************************************************)
(* SpecGuard: _check_and_truncate applied to a rendered response           *)
(***************************************************************************)

InitGuard ==
    /\ gLimit \in GuardLimits
    /\ \E len \in 0..(gLimit + GuardSlack), p \in 0..(GuardPatterns - 1) :
          /\ len + GuardSlack >= gLimit
          /\ gResp = ResponseText(len, p)
    /\ gOut = [done |-> FALSE, text |-> <<>>]
    /\ PipeIdle /\ AssetsIdle /\ CreateIdle /\ ValidateIdle
    /\ HelperIdle

ApplyGuard ==
    /\ ~gOut.done
    /\ gOut' = [done |-> TRUE, text |-> check_and_truncate(gResp, gLimit)]
    /\ UNCHANGED <<gResp, gLimit, pipeVars, assetVars, createVars,
                   validateVars, helperVars>>

NextGuard == ApplyGuard

SpecGuard == InitGuard /\ [][NextGuard]_vars

(***************************************************************************)
(* The tools: what each handler's source says about it                     *)
(***************************************************************************)

Tools ==
    {"list_accounts", "get_account_info", "list_campaigns", "get_campaign",
     "get_campaign_insights", "get_search_terms", "get_asset_performance",
     "create_campaign", "update_campaign_status", "set_campaign_schedule",
     "list_ad_groups", "create_ad_group", "update_ad_group_status",
     "list_keywords", "add_keywords", "remove_keywords", "list_ads",
     "create_responsive_search_ad", "update_ad_status", "create_text_assets",
     "remove_asset_from_group", "update_asset_group_assets",
     "list_negative_keywords", "add_negative_keywords",
     "remove_negative_keywords", "update_campaign_budget",
     "get_budget_utilization", "get_keyword_quality_scores",
     "get_ad_strength", "get_policy_issues", "list_recommendations",
     "apply_recommendation", "dismiss_recommendation",
     "list_conversion_actions", "get_conversion_stats",
     "get_campaign_conversion_goals", "get_geo_targets",
     "search_geo_targets", "set_geo_targets", "remove_geo_targets"}

\* the input model declares a customer_id field
TakesCustomerId(t) == t # "list_accounts"

\* the input model declares a response_format field
HasResponseFormat(t) ==
    t \notin {"create_campaign", "update_campaign_status",
              "set_campaign_schedule", "create_ad_group",
              "update_ad_group_status", "add_keywords", "remove_keywords",
              "create_responsive_search_ad", "update_ad_status",
              "remove_asset_from_group", "remove_negative_keywords",
              "apply_recommendation", "dismiss_recommendation",
              "remove_geo_targets"}

Formats(t) == IF HasResponseFormat(t) THEN {"markdown", "json"} ELSE {"none"}

\* the handler's rendered return, in that format, is wrapped in
\* _check_and_truncate
GuardsBoth ==
    {"list_campaigns", "get_search_terms", "get_asset_performance"}

GuardsMarkdownOnly ==
    {"list_negative_keywords", "get_budget_utilization",
     "get_keyword_quality_scores", "get_ad_strength", "get_policy_issues",
     "list_recommendations", "list_conversion_actions",
     "get_conversion_stats", "get_campaign_conversion_goals",
     "get_geo_targets"}

Guarded(t, fmt) ==
    \/ t \in GuardsBoth
    \/ t \in GuardsMarkdownOnly /\ fmt = "markdown"

\* the JSON branch reads a local that only the markdown branch assigns
\* (avg_utilization, strength_dist): UnboundLocalError
JsonBranchRaises(t) == t \in {"get_budget_utilization", "get_ad_strength"}

\* the handler returns a fixed sentence when the remote returned no rows
EmptyReturn(t, fmt) ==
    \/ t \in {"list_accounts", "get_account_info", "list_campaigns",
              "get_campaign", "get_campaign_insights", "get_search_terms",
              "get_asset_performance", "update_campaign_budget",
              "get_budget_utilization", "get_keyword_quality_scores",
              "get_ad_strength", "list_recommendations",
              "list_conversion_actions", "get_conversion_stats",
              "get_campaign_conversion_goals", "get_geo_targets",
              "search_geo_targets"}
    \/ /\ t \in {"list_ad_groups", "list_keywords", "list_ads",
                 "get_policy_issues"}
       /\ fmt = "markdown"

\* accounts whose details one list_accounts invocation fetches in the model
MaxAccounts == 2

\* the remote call sites (source lines) an invocation goes through, in
\* order, when every call returns; which one depends on the request and on
\* the rows the remote returned
Plans(t) ==
    CASE t = "list_accounts" ->
           {[i \in 1..(k + 1) |-> IF i = 1 THEN 967 ELSE 994] :
               k \in 0..MaxAccounts}
      [] t = "get_account_info" -> {<<1088>>}
      [] t = "list_campaigns" -> {<<1190>>}
      [] t = "get_campaign" -> {<<1317>>}
      [] t = "get_campaign_insights" -> {<<1452>>}
      [] t = "get_search_terms" -> {<<1628>>}
      [] t = "get_asset_performance" -> {<<1822>>}
      [] t = "create_campaign" -> {<<2010, 2059>>}
      [] t = "update_campaign_status" -> {<<2143>>}
      [] t = "set_campaign_schedule" -> {<<2217>>, <<2217, 2258>>}
      [] t = "list_ad_groups" -> {<<2336>>}
      [] t = "create_ad_group" -> {<<2427>>}
      [] t = "update_ad_group_status" -> {<<2495>>}
      [] t = "list_keywords" -> {<<2564>>}
      [] t = "add_keywords" -> {<<2669>>}
      [] t = "remove_keywords" -> {<<2727>>}
      [] t = "list_ads" -> {<<2792>>}
      [] t = "create_responsive_search_ad" -> {<<2918>>}
      [] t = "update_ad_status" -> {<<2986>>}
      [] t = "create_text_assets" -> {<<>>, <<3117, 3130>>}
      [] t = "remove_asset_from_group" -> {<<3238>>}
      [] t = "update_asset_group_assets" ->
           {<<>>, <<3117, 3130>>, <<3238>>, <<3117, 3130, 3238>>}
      [] t = "list_negative_keywords" -> {<<3450>>, <<3421, 3450>>}
      [] t = "add_negative_keywords" -> {<<>>, <<3573>>, <<3593>>}
      [] t = "remove_negative_keywords" -> {<<>>, <<3689>>, <<3708>>}
      [] t = "update_campaign_budget" -> {<<3784>>, <<3784, 3807>>}
      [] t = "get_budget_utilization" -> {<<3913>>}
      [] t = "get_keyword_quality_scores" -> {<<4102>>}
      [] t = "get_ad_strength" -> {<<4270>>}
      [] t = "get_policy_issues" ->
           {<<>>, <<4420>>, <<4462>>, <<4420, 4462>>}
      [] t = "list_recommendations" -> {<<4644>>}
      [] t = "apply_recommendation" -> {<<4810>>}
      [] t = "dismiss_recommendation" -> {<<4880>>}
      [] t = "list_conversion_actions" -> {<<4953>>}
      [] t = "get_conversion_stats" -> {<<5062>>}
      [] t = "get_campaign_conversion_goals" -> {<<5216>>}
      [] t = "get_geo_targets" -> {<<5355>>}
      [] t = "search_geo_targets" -> {<<5495>>}
      [] t = "set_geo_targets" -> {<<5626>>}
      [] t = "remove_geo_targets" -> {<<5709>>}

(***************************************************************************)
(* Exceptions and the error boundary                                       *)
(***************************************************************************)

GoogleAdsException(codes) == [type |-> "GoogleAdsException", codes |-> codes]

ValueErrorExc == [type |-> "ValueError", codes |-> {}]

OtherExc == [type |-> "Other", codes |-> {}]

\* the error codes str(error) may name
ErrorCodes ==
    {"AUTHENTICATION_ERROR", "AUTHORIZATION_ERROR", "RATE_EXCEEDED",
     "RESOURCE_EXHAUSTED", "INVALID_CUSTOMER_ID", "NOT_FOUND",
     "RESOURCE_NOT_FOUND", "BUDGET_ERROR", "REQUEST_ERROR"}

\* what a remote call may raise: a GoogleAdsException naming one code, or
\* an exception of another kind (transport, attribute access)
RemoteExceptions == {GoogleAdsException({c}) : c \in ErrorCodes} \cup {OtherExc}

\* "code" in error_str
Mentions(error, code) ==
    \E c \in error.codes :
        \/ c = code
        \/ code = "NOT_FOUND" /\ c = "RESOURCE_NOT_FOUND"

\* mutant: the not-found test is made before the invalid-customer-id test
handle_google_ads_error_not_found_first(error) ==
    IF error.type = "GoogleAdsException"
    THEN IF Mentions(error, "AUTHENTICATION_ERROR") THEN "authentication"
         ELSE IF Mentions(error, "AUTHORIZATION_ERROR") THEN "authorization"
         ELSE IF Mentions(error, "RATE_EXCEEDED")
                 \/ Mentions(error, "RESOURCE_EXHAUSTED") THEN "rate_limit"
         ELSE IF Mentions(error, "NOT_FOUND")
                 \/ Mentions(error, "RESOURCE_NOT_FOUND") THEN "not_found"
         ELSE IF Mentions(error, "INVALID_CUSTOMER_ID")
              THEN "invalid_customer_id"
         ELSE IF Mentions(error, "BUDGET_ERROR") THEN "budget"
         ELSE "generic"
    ELSE IF error.type = "ValueError" THEN "value_error"
    ELSE "unexpected"

\* the message _handle_google_ads_error returns, by its class
handle_google_ads_error(error) ==
    IF error.type = "GoogleAdsException"
    THEN IF Mentions(error, "AUTHENTICATION_ERROR") THEN "authentication"
         ELSE IF Mentions(error, "AUTHORIZATION_ERROR") THEN "authorization"
         ELSE IF Mentions(error, "RATE_EXCEEDED")
                 \/ Mentions(error, "RESOURCE_EXHAUSTED") THEN "rate_limit"
         ELSE IF Mentions(error, "INVALID_CUSTOMER_ID")
              THEN "invalid_customer_id"
         ELSE IF Mentions(error, "NOT_FOUND")
                 \/ Mentions(error, "RESOURCE_NOT_FOUND") THEN "not_found"
         ELSE IF Mentions(error, "BUDGET_ERROR") THEN "budget"
         ELSE "generic"
    ELSE IF error.type = "ValueError" THEN "value_error"
    ELSE "unexpected"

ErrorText(class) == [kind |-> "text", class |-> class, len |-> 0]

\* mutant: the handler catches GoogleAdsException and ValueError only
ToolBoundary_narrow(error) ==
    IF error.type = "Other" THEN [kind |-> "raised", class |-> "Other", len |-> 0]
    ELSE ErrorText(handle_google_ads_error(error))

\* except Exception as e: return _handle_google_ads_error(e)
ToolBoundary(error) == ErrorText(handle_google_ads_error(error))

RequiredVars ==
    {"GOOGLE_ADS_DEVELOPER_TOKEN", "GOOGLE_ADS_CLIENT_ID",
     "GOOGLE_ADS_CLIENT_SECRET", "GOOGLE_ADS_REFRESH_TOKEN"}

\* mutant: a missing variable is read as an empty credential and the client
\* is built all the same
get_google_ads_client_defaulting(environ) ==
    [ok |-> TRUE, error |-> ValueErrorExc]

\* _get_google_ads_client: the ValueError naming the missing variables, or
\* the client
get_google_ads_client(environ) ==
    LET missing_vars == RequiredVars \ environ
    IN  IF missing_vars # {} THEN [ok |-> FALSE, error |-> ValueErrorExc]
        ELSE [ok |-> TRUE, error |-> ValueErrorExc]

(***************************************************************************)
(* One tool invocation, from the request to the returned text              *)
(***************************************************************************)

\* the customer IDs callers send in the model: ten or twelve characters,
\* plain digits or with dashes, letters or blanks in them
SampleIds ==
    {IdString(n, p[1], c, p[2], c) :
        n \in {CUSTOMER_ID_LENGTH, CUSTOMER_ID_LENGTH + 2},
        p \in {<<0, 0>>, <<4, 8>>, <<1, CUSTOMER_ID_LENGTH + 2>>},
        c \in OddChars}

EnvChoices == {RequiredVars} \cup {RequiredVars \ {v} : v \in RequiredVars}

\* the tools whose rendered text grows with the rows the remote returned
RowSized(t) ==
    t \in {"list_accounts", "list_campaigns", "get_campaign_insights",
           "get_search_terms", "get_asset_performance", "list_ad_groups",
           "list_keywords", "list_ads", "list_negative_keywords",
           "get_budget_utilization", "get_keyword_quality_scores",
           "get_ad_strength", "get_policy_issues", "list_recommendations",
           "list_conversion_actions", "get_conversion_stats",
           "get_campaign_conversion_goals", "get_geo_targets",
           "search_geo_targets"}

\* length of a rendered text that does not depend on the rows
RenderSmall == 120

\* how far past the limit the longest rendered text of the model goes
RenderOver == 5000

RenderLens(t, rows) ==
    IF RowSized(t) /\ rows = "some"
    THEN {RenderSmall, CHARACTER_LIMIT, CHARACTER_LIMIT + 1,
          CHARACTER_LIMIT + RenderOver}
    ELSE {RenderSmall}

\* whether the remote holds rows for the request, where the handler has a
\* branch for none
RowChoices(t, plan) ==
    IF t \in {"list_accounts", "update_campaign_budget"}
    THEN IF Len(plan) = 1 THEN {"none"} ELSE {"some"}
    ELSE IF RowSized(t) /\ plan = <<>> THEN {"none"}
    ELSE IF EmptyReturn(t, "markdown") /\ plan # <<>> THEN {"none", "some"}
    ELSE {"some"}

\* the rows the handler holds when it renders: none when every fetch of
\* list_accounts or get_policy_issues was skipped
RowsSeen(t, rows, made) ==
    IF /\ t \in {"list_accounts", "get_policy_issues"}
       /\ ~\E i \in 1..Len(made) :
             made[i].site \in {994, 4420, 4462} /\ made[i].outcome = "ok"
    THEN "none"
    ELSE rows

\* the handler's own check of the request, made before any remote call,
\* returns a fixed error sentence
UsageError(t, plan) ==
    /\ plan = <<>>
    /\ t \in {"create_text_assets", "update_asset_group_assets",
              "add_negative_keywords", "remove_negative_keywords"}

\* what the remote call at a site does with an exception, in this tool:
\* "skip" (caught next to the call, the handler goes on), "decode" (the
\* sub-tool returned its error text and json.loads fails on it), "embed"
\* (the sub-tool's error text is appended to the results) or "boundary"
Disposition(t, site, error) ==
    IF site = 994 /\ error.type = "GoogleAdsException" THEN "skip"
    ELSE IF site = 4462 THEN "skip"
    ELSE IF t = "update_asset_group_assets" /\ site \in {3117, 3130}
         THEN "decode"
    ELSE IF t = "update_asset_group_assets" /\ site = 3238 THEN "embed"
    ELSE "boundary"

\* the text the handler returns once its remote calls are over
Render(t, fmt, plan, rows, len) ==
    IF UsageError(t, plan)
    THEN [kind |-> "text", class |-> "usage_error", len |-> 0]
    ELSE IF rows = "none" /\ EmptyReturn(t, fmt)
    THEN [kind |-> "text", class |-> "empty", len |-> 0]
    ELSE IF fmt = "json" /\ JsonBranchRaises(t) THEN ToolBoundary(OtherExc)
    ELSE [kind |-> "text", class |-> "success",
          len |-> IF Guarded(t, fmt)
                  THEN Len(check_and_truncate(ResponseText(len, 0),
                                              CHARACTER_LIMIT))
                  ELSE len]

Init ==
    /\ env \in EnvChoices
    /\ pc = "idle"
    /\ tool = "none"
    /\ req = NoReq
    /\ calls = <<>>
    /\ result = NoResult
    /\ AssetsIdle /\ CreateIdle /\ ValidateIdle /\ GuardIdle
    /\ HelperIdle

\* the MCP client calls a tool
Invoke ==
    /\ pc = "idle"
    /\ \E t \in Tools :
        \E cid \in (IF TakesCustomerId(t) THEN SampleIds ELSE {<<>>}),
           fmt \in Formats(t), plan \in Plans(t), ok \in BOOLEAN :
            \E rows \in RowChoices(t, plan) :
                /\ tool' = t
                /\ req' = [customer_id |-> cid, response_format |-> fmt,
                           plan |-> plan, rows |-> rows, fields_ok |-> ok]
    /\ pc' = "schema"
    /\ calls' = <<>>
    /\ result' = NoResult
    /\ UNCHANGED <<env, assetVars, createVars, validateVars, guardVars,
                   helperVars>>

\* the input model validates the arguments before the handler is entered
SchemaStep ==
    /\ pc = "schema"
    /\ LET schema == IF TakesCustomerId(tool)
                     THEN SchemaCustomerId(req.customer_id)
                     ELSE [ok |-> TRUE, value |-> <<>>]
       IN  IF schema.ok /\ req.fields_ok
           THEN /\ req' = [req EXCEPT !.customer_id = schema.value]
                /\ pc' = IF TakesCustomerId(tool) THEN "validate" ELSE "client"
                /\ UNCHANGED result
           ELSE /\ result' = [kind |-> "rejected", class |-> "schema", len |-> 0]
                /\ pc' = "done"
                /\ UNCHANGED req
    /\ UNCHANGED <<env, tool, calls, assetVars, createVars, validateVars,
                   guardVars, helperVars>>

\* customer_id = _validate_customer_id(params.customer_id)
ValidateStep ==
    /\ pc = "validate"
    /\ LET checked == validate_customer_id(req.customer_id)
       IN  IF checked.ok
           THEN /\ req' = [req EXCEPT !.customer_id = checked.value]
                /\ pc' = IF tool = "update_asset_group_assets"
                            /\ UsageError(tool, req.plan)
                         THEN "render" ELSE "client"
                /\ UNCHANGED result
           ELSE /\ result' = ToolBoundary(ValueErrorExc)
                /\ pc' = "done"
                /\ UNCHANGED req
    /\ UNCHANGED <<env, tool, calls, assetVars, createVars, validateVars,
                   guardVars, helperVars>>

\* client = _get_google_ads_client(); in update_asset_group_assets the
\* client is built by the sub-tools
ClientStep ==
    /\ pc = "client"
    /\ LET client == get_google_ads_client(env)
       IN  IF client.ok
           THEN /\ pc' = IF req.plan = <<>> THEN "render" ELSE "remote"
                /\ UNCHANGED result
           ELSE IF tool = "update_asset_group_assets"
           THEN IF Head(req.plan) = 3117
                THEN /\ result' = ToolBoundary(ValueErrorExc)
                     /\ pc' = "done"
                ELSE /\ pc' = "render"
                     /\ UNCHANGED result
           ELSE /\ result' = ToolBoundary(client.error)
                /\ pc' = "done"
    /\ UNCHANGED <<env, tool, req, calls, assetVars, createVars,
                   validateVars, guardVars, helperVars>>

\* mutant: a request that raised is sent a second time
execute_request_resend(site, outcome) ==
    IF outcome = "raised"
    THEN <<[site |-> site, outcome |-> outcome],
           [site |-> site, outcome |-> outcome]>>
    ELSE <<[site |-> site, outcome |-> outcome]>>

\* what goes out to the remote for one request of the handler: the service
\* method (search_stream in _execute_query, search, a mutate method) is
\* called once, whatever its outcome
execute_request(site, outcome) == <<[site |-> site, outcome |-> outcome]>>

\* the next remote call of the handler returns or raises
RemoteStep ==
    /\ pc = "remote"
    /\ Len(calls) < Len(req.plan)
    /\ LET site == req.plan[Len(calls) + 1]
           last == Len(calls) + 1 = Len(req.plan)
       IN  \/ /\ calls' = calls \o execute_request(site, "ok")
              /\ pc' = IF last THEN "render" ELSE "remote"
              /\ UNCHANGED result
           \/ \E error \in RemoteExceptions :
                LET d == Disposition(tool, site, error)
                IN  /\ calls' = calls \o execute_request(site, "raised")
                    /\ IF d \in {"skip", "embed"}
                       THEN /\ pc' = IF last THEN "render" ELSE "remote"
                            /\ UNCHANGED result
                       ELSE /\ pc' = "done"
                            /\ result' = IF d = "decode"
                                         THEN ToolBoundary(ValueErrorExc)
                                         ELSE ToolBoundary(error)
    /\ UNCHANGED <<env, tool, req, assetVars, createVars, validateVars,
                   guardVars, helperVars>>

\* the handler formats its result and returns it
RenderStep ==
    /\ pc = "render"
    /\ LET rows == RowsSeen(tool, req.rows, calls)
       IN  \E len \in RenderLens(tool, rows) :
              result' = Render(tool, req.response_format, req.plan, rows, len)
    /\ pc' = "done"
    /\ UNCHANGED <<env, tool, req, calls, assetVars, createVars,
                   validateVars, guardVars, helperVars>>

\* the result is delivered; the server waits for the next call
Return ==
    /\ pc = "done"
    /\ pc' = "idle"
    /\ tool' = "none"
    /\ req' = NoReq
    /\ calls' = <<>>
    /\ result' = NoResult
    /\ UNCHANGED <<env, assetVars, createVars, validateVars, guardVars,
                   helperVars>>

Next ==
    \/ Invoke
    \/ SchemaStep
    \/ ValidateStep
    \/ ClientStep
    \/ RemoteStep
    \/ RenderStep
    \/ Return

Spec == Init /\ [][Next]_vars

(***************************************************************************)
(* Properties of the tool pipeline (Spec)                                  *)
(***************************************************************************)

\* C1: every invocation whose request passed the input model ends with a
\* returned text, whatever the remote calls and the handler's own code
\* raised; no exception leaves the tool function.
C1_AlwaysReturnsText ==
    /\ result.kind # "raised"
    /\ (pc = "done" /\ result.kind # "rejected") => result.kind = "text"

\* an exception that is neither a GoogleAdsException nor a ValueError was
\* raised by a remote call and came back as text
C1_Witness ==
    /\ pc = "done"
    /\ calls # <<>>
    /\ calls[Len(calls)].outcome = "raised"
    /\ result = [kind |-> "text", class |-> "unexpected", len |-> 0]

\* the customer ID fails validation as the claim words it
FailsValidation(customer_id) ==
    LET stripped == RemoveChar(customer_id, "-")
    IN  \/ Len(stripped) # CUSTOMER_ID_LENGTH
        \/ \E i \in 1..Len(stripped) : ~IsDigit(stripped[i])

\* C5: in a tool that takes a customer ID, a handler that received an ID
\* failing validation (not 10 characters once dashes are removed, or a
\* non-digit) goes no further than the validation: it returns the input
\* error and has made no remote call.
C5_InvalidIdNoRemoteCall ==
    (/\ TakesCustomerId(tool)
     /\ pc \notin {"idle", "schema", "validate"}
     /\ result.kind # "rejected"
     /\ FailsValidation(req.customer_id))
    => /\ pc = "done"
       /\ calls = <<>>
       /\ result = ErrorText("value_error")

\* add_keywords was given a ten-character ID with dashes in it, with every
\* credential present, and returned the input error without a remote call
C5_Witness ==
    /\ pc = "done"
    /\ tool = "add_keywords"
    /\ env = RequiredVars
    /\ Contains(req.customer_id, <<"-">>)
    /\ calls = <<>>
    /\ result = ErrorText("value_error")

\* the longest text the Response Guard lets through in the model
LongestGuarded ==
    Len(check_and_truncate(ResponseText(CHARACTER_LIMIT + RenderOver, 0),
                           CHARACTER_LIMIT))

\* C9: no tool returns a rendered result longer than the character limit
\* plus the warning suffix, in either output mode.
C9_EveryResponseGuarded ==
    (pc = "done" /\ result.class = "success") => result.len <= LongestGuarded

\* C10: for the same request and the same remote rows, where one output
\* mode returned its result the other mode returns its result too, not an
\* error.
C10_ModesAgree ==
    (/\ pc = "done"
     /\ HasResponseFormat(tool)
     /\ result.class \in {"success", "empty"})
    => \A fmt \in Formats(tool) :
          Render(tool, fmt, req.plan, RowsSeen(tool, req.rows, calls),
                 RenderSmall).class
              \in {"success", "empty"}

(***************************************************************************)
(* google_ads_update_asset_group_assets against the remote asset group     *)
(***************************************************************************)

\* assets linked to the asset group before the tool is used
OldAssets == {"old1", "old2"}

\* text assets a caller may ask to add
NewAssets == {"new1", "new2"}

\* link IDs a caller may ask to remove: the old ones and one never linked
RemovableIds == OldAssets \cup {"gone"}

\* the customer IDs of the asset requests: one valid, one that fails
\* _validate_customer_id
AssetCustomerIds ==
    {IdString(CUSTOMER_ID_LENGTH, 0, "-", 0, "-"),
     IdString(CUSTOMER_ID_LENGTH, 4, "-", 8, "-")}

\* mutant: the removals are made before the additions
UpdateSteps_remove_first(has_add, has_remove) ==
    (IF has_remove THEN <<"remove">> ELSE <<>>)
        \o (IF has_add THEN <<"create", "link">> ELSE <<>>)

\* Step 1 (create_text_assets: mutate_assets, then the linking
\* mutate_asset_group_assets), then Step 2 (remove_asset_from_group)
UpdateSteps(has_add, has_remove) ==
    (IF has_add THEN <<"create", "link">> ELSE <<>>)
        \o (IF has_remove THEN <<"remove">> ELSE <<>>)

UpdIdle(creds) ==
    [pc |-> "idle", add |-> {}, remove |-> {}, todo |-> <<>>, made |-> <<>>,
     results |-> <<>>, before |-> {}, creds |-> creds, add_result |-> "none",
     ret |-> "none"]

InitAssets ==
    /\ linked \in SUBSET OldAssets
    /\ library = linked
    /\ upd \in {UpdIdle(c) : c \in BOOLEAN}
    /\ PipeIdle /\ CreateIdle /\ ValidateIdle /\ GuardIdle
    /\ HelperIdle

\* the handler up to its first sub-tool call
UpdateInvoke ==
    /\ upd.pc = "idle"
    /\ \E cid \in AssetCustomerIds, add \in SUBSET NewAssets,
          remove \in SUBSET RemovableIds :
        LET has_add == add # {}
            has_remove == remove # {}
            fresh == [UpdIdle(upd.creds) EXCEPT !.add = add,
                                                !.remove = remove,
                                                !.before = linked]
        IN  IF ~validate_customer_id(cid).ok
            THEN upd' = [fresh EXCEPT !.pc = "done",
                             !.ret = ToolBoundary(ValueErrorExc).class]
            ELSE IF ~has_add /\ ~has_remove
            THEN upd' = [fresh EXCEPT !.pc = "done", !.ret = "usage_error"]
            ELSE upd' = [fresh EXCEPT !.pc = "running",
                             !.todo = UpdateSteps(has_add, has_remove)]
    /\ UNCHANGED <<linked, library, pipeVars, createVars, validateVars,
                   guardVars, helperVars>>

\* create_text_assets caught error and returned its message as add_result:
\* json.loads raises a JSONDecodeError (a ValueError) on it and the handler
\* returns through its own except clause
AddPathFailed(u, made, error) ==
    [u EXCEPT !.pc = "done", !.todo = <<>>, !.made = made,
              !.add_result = ToolBoundary(error).class,
              !.ret = ToolBoundary(ValueErrorExc).class]

\* create_text_assets: asset_service.mutate_assets
UpdateCreateAssets ==
    /\ upd.pc = "running"
    /\ upd.todo # <<>>
    /\ Head(upd.todo) = "create"
    /\ IF ~get_google_ads_client(IF upd.creds THEN RequiredVars ELSE {}).ok
       THEN /\ upd' = AddPathFailed(upd, upd.made,
                                     get_google_ads_client({}).error)
            /\ UNCHANGED library
       ELSE \/ /\ library' = library \cup upd.add
               /\ upd' = [upd EXCEPT !.todo = Tail(upd.todo),
                             !.made = Append(upd.made,
                                 [site |-> 3117, outcome |-> "ok"])]
            \/ /\ \E error \in RemoteExceptions :
                     upd' = AddPathFailed(upd, Append(upd.made,
                                [site |-> 3117, outcome |-> "raised"]), error)
               /\ UNCHANGED library
    /\ UNCHANGED <<linked, pipeVars, createVars, validateVars, guardVars,
                   helperVars>>

\* create_text_assets: asset_group_asset_service.mutate_asset_group_assets
UpdateLinkAssets ==
    /\ upd.pc = "running"
    /\ upd.todo # <<>>
    /\ Head(upd.todo) = "link"
    /\ \/ /\ linked' = linked \cup upd.add
          /\ upd' = [upd EXCEPT !.todo = Tail(upd.todo),
                        !.made = Append(upd.made,
                            [site |-> 3130, outcome |-> "ok"]),
                        !.results = Append(upd.results, <<"add", "ok">>)]
       \/ /\ \E error \in RemoteExceptions :
                upd' = AddPathFailed(upd, Append(upd.made,
                           [site |-> 3130, outcome |-> "raised"]), error)
          /\ UNCHANGED linked
    /\ UNCHANGED <<library, pipeVars, createVars, validateVars, guardVars,
                   helperVars>>

\* remove_asset_from_group: whatever text it returns, an error text
\* included, is appended to the results and the handler goes on
UpdateRemoveAssets ==
    /\ upd.pc = "running"
    /\ upd.todo # <<>>
    /\ Head(upd.todo) = "remove"
    /\ IF ~get_google_ads_client(IF upd.creds THEN RequiredVars ELSE {}).ok
       THEN /\ upd' = [upd EXCEPT !.todo = Tail(upd.todo),
                          !.results = Append(upd.results,
                                             <<"remove", "error">>)]
            /\ UNCHANGED linked
       ELSE \/ /\ upd.remove \subseteq linked
               /\ linked' = linked \ upd.remove
               /\ upd' = [upd EXCEPT !.todo = Tail(upd.todo),
                             !.made = Append(upd.made,
                                 [site |-> 3238, outcome |-> "ok"]),
                             !.results = Append(upd.results,
                                                <<"remove", "ok">>)]
            \/ /\ upd' = [upd EXCEPT !.todo = Tail(upd.todo),
                             !.made = Append(upd.made,
                                 [site |-> 3238, outcome |-> "raised"]),
                             !.results = Append(upd.results,
                                                <<"remove", "error">>)]
               /\ UNCHANGED linked
    /\ UNCHANGED <<library, pipeVars, createVars, validateVars, guardVars,
                   helperVars>>

\* Build response: the success report, in either format
UpdateRender ==
    /\ upd.pc = "running"
    /\ upd.todo = <<>>
    /\ upd' = [upd EXCEPT !.pc = "done", !.ret = "success"]
    /\ UNCHANGED <<linked, library, pipeVars, createVars, validateVars,
                   guardVars, helperVars>>

\* the text is delivered; the remote keeps its state
UpdateReturn ==
    /\ upd.pc = "done"
    /\ upd' = UpdIdle(upd.creds)
    /\ UNCHANGED <<linked, library, pipeVars, createVars, validateVars,
                   guardVars, helperVars>>

NextAssets ==
    \/ UpdateInvoke
    \/ UpdateCreateAssets
    \/ UpdateLinkAssets
    \/ UpdateRemoveAssets
    \/ UpdateRender
    \/ UpdateReturn

SpecAssets == InitAssets /\ [][NextAssets]_vars

\* the remote call at position i of the invocation returned
MadeOk(i) == i <= Len(upd.made) /\ upd.made[i].outcome = "ok"

\* C2: after any invocation that asked for additions and removals, either
\* the additions and the removals have both taken effect at the remote
\* service or neither has, and the invocation made a single remote call.
C2_Atomic ==
    (upd.pc = "done" /\ upd.add # {} /\ upd.remove # {})
    => /\ Len(upd.made) <= 1
       /\ \/ upd.add \subseteq linked /\ upd.remove \cap linked = {}
          \/ linked = upd.before /\ library = upd.before

StepSucceeded(step) ==
    \E i \in 1..Len(upd.results) : upd.results[i] = <<step, "ok">>

\* C27: an invocation that reports success (the success header, or
\* success = true) made every step it was asked for, the add and the
\* remove, and each of them succeeded at the remote.
C27_SuccessMeansAllStepsSucceeded ==
    (upd.pc = "done" /\ upd.ret = "success")
    => /\ upd.add # {} => StepSucceeded("add")
       /\ upd.remove # {} => StepSucceeded("remove")

\* C28: when the add step fails, the error the invocation returns is the
\* message the add step classified its own failure to, not another one.
C28_AddErrorReturned ==
    (upd.pc = "done" /\ upd.add_result # "none") => upd.ret = upd.add_result

CreateTools ==
    {"create_campaign", "create_ad_group", "create_responsive_search_ad",
     "add_keywords", "set_campaign_schedule"}

\* AddKeywordsInput.keywords: min_length and max_length
KEYWORDS_MIN == 1
KEYWORDS_MAX == 50

\* keyword list lengths callers send in the model
KeywordCounts == {0, 1, 2, KEYWORDS_MAX, KEYWORDS_MAX + 1}

\* SetCampaignScheduleInput.days as callers send it in the model
DayLists == {<<>>, <<"MONDAY">>, <<"MONDAY", "TUESDAY">>, <<"SATURDAY">>}

\* CreateAdGroupInput.status: left out (the default applies) or given
StatusChoices ==
    {[asked |-> FALSE, status |-> "PAUSED"],
     [asked |-> TRUE, status |-> "PAUSED"],
     [asked |-> TRUE, status |-> "ENABLED"]}

\* campaign budgets the remote creates in the model
MaxBudgets == 2

\* the tool's docstring or input model names ENABLED as what it creates
DocumentsEnabledDefault(t) == t \in {}

\* the input model of the tool accepts the arguments
CreateSchema(t, n) ==
    t = "add_keywords" => (n >= KEYWORDS_MIN /\ n <= KEYWORDS_MAX)

\* mutant: one mutate call for each keyword
CreatePlan_call_per_keyword(t, n) ==
    CASE t = "create_campaign" -> <<2010, 2059>>
      [] t = "create_ad_group" -> <<2427>>
      [] t = "create_responsive_search_ad" -> <<2918>>
      [] t = "add_keywords" -> [i \in 1..n |-> 2669]
      [] t = "set_campaign_schedule" -> <<2217, 2258>>

\* mutant: create_campaign creates the campaign before the budget
CreatePlan_campaign_first(t, n) ==
    CASE t = "create_campaign" -> <<2059, 2010>>
      [] t = "create_ad_group" -> <<2427>>
      [] t = "create_responsive_search_ad" -> <<2918>>
      [] t = "add_keywords" -> <<2669>>
      [] t = "set_campaign_schedule" -> <<2217, 2258>>

\* the remote call sites of the handler, in order
CreatePlan(t, n) ==
    CASE t = "create_campaign" -> <<2010, 2059>>
      [] t = "create_ad_group" -> <<2427>>
      [] t = "create_responsive_search_ad" -> <<2918>>
      [] t = "add_keywords" -> <<2669>>
      [] t = "set_campaign_schedule" -> <<2217, 2258>>

CreateOp(entity, status) == [entity |-> entity, status |-> status]

\* the operations the handler passes to the mutate call at a site
BuildOperations(r, site, existing) ==
    CASE site = 2010 ->
           [removes |-> {}, creates |-> <<CreateOp("campaign_budget", "none")>>]
      [] site = 2059 ->
           [removes |-> {},
            creates |-> <<[entity |-> "campaign", status |-> "PAUSED",
                           campaign_budget |-> r.budget_resource_name]>>]
      [] site = 2427 ->
           [removes |-> {}, creates |-> <<CreateOp("ad_group", r.status)>>]
      [] site = 2918 ->
           [removes |-> {}, creates |-> <<CreateOp("ad_group_ad", "PAUSED")>>]
      [] site = 2669 ->
           [removes |-> {},
            creates |-> [i \in 1..r.keywords |-> CreateOp("keyword", "ENABLED")]]
      [] site = 2258 ->
           [removes |-> existing,
            creates |-> [i \in 1..Len(r.days) |->
                            CreateOp("ad_schedule", "ENABLED")]]

CreateIdleReq(creds) ==
    [pc |-> "idle", tool |-> "none", asked |-> FALSE, status |-> "none",
     keywords |-> 0, days |-> <<>>, todo |-> <<>>, existing |-> {},
     budget_resource_name |-> 0, creds |-> creds, ret |-> "none"]

InitCreate ==
    /\ creq \in {CreateIdleReq(c) : c \in BOOLEAN}
    /\ sent = <<>>
    /\ budgets = 0
    /\ schedules \in {{}, {"SUNDAY"}}
    /\ PipeIdle /\ AssetsIdle /\ ValidateIdle /\ GuardIdle
    /\ HelperIdle

\* the input model, then the handler up to its first remote call
CreateInvoke ==
    /\ creq.pc = "idle"
    /\ \E t \in CreateTools, cid \in AssetCustomerIds :
        \E st \in (IF t = "create_ad_group" THEN StatusChoices
                   ELSE {[asked |-> FALSE, status |-> "none"]}),
           n \in (IF t = "add_keywords" THEN KeywordCounts ELSE {0}),
           days \in (IF t = "set_campaign_schedule" THEN DayLists ELSE {<<>>}) :
            LET r == [CreateIdleReq(creq.creds) EXCEPT
                          !.tool = t, !.asked = st.asked,
                          !.status = st.status, !.keywords = n, !.days = days]
            IN  /\ t = "create_campaign" => budgets < MaxBudgets
                /\ IF ~CreateSchema(t, n)
                   THEN creq' = [r EXCEPT !.pc = "done", !.ret = "rejected"]
                   ELSE IF ~validate_customer_id(cid).ok
                   THEN creq' = [r EXCEPT !.pc = "done",
                                    !.ret = ToolBoundary(ValueErrorExc).class]
                   ELSE IF ~get_google_ads_client(
                               IF creq.creds THEN RequiredVars ELSE {}).ok
                   THEN creq' = [r EXCEPT !.pc = "done",
                                    !.ret = ToolBoundary(ValueErrorExc).class]
                   ELSE creq' = [r EXCEPT !.pc = "running",
                                    !.todo = CreatePlan(t, n)]
    /\ sent' = <<>>
    /\ UNCHANGED <<budgets, schedules, pipeVars, assetVars, validateVars,
                   guardVars, helperVars>>

\* what the remote holds once the mutate call at a site has succeeded
BudgetsAfter(site, n) == IF site = 2010 THEN n + 1 ELSE n

SchedulesAfter(site, r, held) ==
    IF site = 2258
    THEN (held \ r.existing) \cup {r.days[i] : i \in 1..Len(r.days)}
    ELSE held

\* set_campaign_schedule: googleads_service.search for the existing criteria
CreateSearch ==
    /\ creq.pc = "running"
    /\ creq.todo # <<>>
    /\ Head(creq.todo) = 2217
    /\ \/ LET operations == Len(creq.days) + Cardinality(schedules)
          IN  creq' = [creq EXCEPT !.existing = schedules,
                           !.todo = IF operations > 0 THEN Tail(creq.todo)
                                    ELSE <<>>]
       \/ \E error \in RemoteExceptions :
            creq' = [creq EXCEPT !.pc = "done", !.todo = <<>>,
                         !.ret = ToolBoundary(error).class]
    /\ UNCHANGED <<sent, budgets, schedules, pipeVars, assetVars,
                   validateVars, guardVars, helperVars>>

\* one mutate call: the remote applies all its operations or none
CreateMutate ==
    /\ creq.pc = "running"
    /\ creq.todo # <<>>
    /\ Head(creq.todo) # 2217
    /\ LET site == Head(creq.todo)
           payload == BuildOperations(creq, site, creq.existing)
           call == [site |-> site, removes |-> payload.removes,
                    creates |-> payload.creates]
       IN  \/ /\ payload.removes \subseteq schedules
              /\ sent' = Append(sent, call)
              /\ budgets' = BudgetsAfter(site, budgets)
              /\ schedules' = SchedulesAfter(site, creq, schedules)
              /\ creq' = [creq EXCEPT
                              !.todo = Tail(creq.todo),
                              !.budget_resource_name =
                                  IF site = 2010
                                  THEN BudgetsAfter(site, budgets) ELSE @]
           \/ \E error \in RemoteExceptions :
                /\ sent' = Append(sent, call)
                /\ creq' = [creq EXCEPT !.pc = "done", !.todo = <<>>,
                                !.ret = ToolBoundary(error).class]
                /\ UNCHANGED <<budgets, schedules>>
    /\ UNCHANGED <<pipeVars, assetVars, validateVars, guardVars,
                   helperVars>>

\* the success message
CreateRender ==
    /\ creq.pc = "running"
    /\ creq.todo = <<>>
    /\ creq' = [creq EXCEPT !.pc = "done", !.ret = "success"]
    /\ UNCHANGED <<sent, budgets, schedules, pipeVars, assetVars,
                   validateVars, guardVars, helperVars>>

\* the text is delivered; the remote keeps its state
CreateReturn ==
    /\ creq.pc = "done"
    /\ creq' = CreateIdleReq(creq.creds)
    /\ sent' = <<>>
    /\ UNCHANGED <<budgets, schedules, pipeVars, assetVars, validateVars,
                   guardVars, helperVars>>

NextCreate ==
    \/ CreateInvoke
    \/ CreateSearch
    \/ CreateMutate
    \/ CreateRender
    \/ CreateReturn

SpecCreate == InitCreate /\ [][NextCreate]_vars

\* C4: no create tool sends an entity to the remote service as ENABLED
\* unless the caller asked for that status or the tool documents an enabled
\* default.
C4_SafeInitialState ==
    \A i \in 1..Len(sent) :
        \A j \in 1..Len(sent[i].creates) :
            sent[i].creates[j].status = "ENABLED"
                => \/ creq.asked /\ creq.status = "ENABLED"
                   \/ DocumentsEnabledDefault(creq.tool)

\* C7: an add_keywords request with an empty keyword list is refused by the
\* input model and makes no remote call; one with N keywords, 1 <= N <= 50,
\* a valid customer ID and a client that could be built has made, when it
\* returns, one mutate call carrying the N create operations; no
\* add_keywords request makes more than one remote call.
C7_KeywordsOneCall ==
    (creq.tool = "add_keywords" /\ creq.pc = "done")
    => /\ Len(sent) <= 1
       /\ creq.keywords = 0 => (creq.ret = "rejected" /\ sent = <<>>)
       /\ (/\ creq.keywords >= 1 /\ creq.keywords <= 50
           /\ creq.ret \notin {"rejected", "value_error"})
          => /\ Len(sent) = 1
             /\ sent[1].site = 2669
             /\ Len(sent[1].creates) = creq.keywords

\* two keywords went out in one mutate call and the tool reported success
C7_Witness ==
    /\ creq.tool = "add_keywords"
    /\ creq.pc = "done"
    /\ creq.keywords = 2
    /\ creq.ret = "success"
    /\ Len(sent) = 1
    /\ Len(sent[1].creates) = 2

\* C29: in create_campaign the budget-create call comes before the
\* campaign-create call; the campaign-create call is made only after the
\* budget-create call has succeeded and it names the budget resource that
\* call returned; when the campaign-create call fails the handler returns
\* an error and the budget stays at the remote, no call removing it.
C29_BudgetThenCampaign ==
    creq.tool = "create_campaign"
    => /\ \A i \in 1..Len(sent) :
             /\ sent[i].removes = {}
             /\ sent[i].site = 2059
                   => /\ i = 2
                      /\ sent[1].site = 2010
                      /\ creq.budget_resource_name # 0
                      /\ sent[i].creates[1].campaign_budget
                             = creq.budget_resource_name
       /\ Len(sent) <= 2
       /\ creq.budget_resource_name # 0
             => budgets = creq.budget_resource_name
       /\ (creq.pc = "done" /\ Len(sent) = 2 /\ creq.ret # "success")
             => creq.ret \in {ToolBoundary(e).class : e \in RemoteExceptions}

\* the budget was created, the campaign-create call naming it raised, and
\* the handler returned an error with the budget still at the remote
C29_Witness ==
    /\ creq.tool = "create_campaign"
    /\ creq.pc = "done"
    /\ Len(sent) = 2
    /\ sent[2].site = 2059
    /\ sent[2].creates[1].campaign_budget = creq.budget_resource_name
    /\ creq.ret \notin {"success", "none"}
    /\ budgets = creq.budget_resource_name
    /\ budgets > 0

(***************************************************************************)
(* Properties of the customer-ID check (SpecValidate) and of the response  *)
(* guard (SpecGuard)                                                       *)
(***************************************************************************)

\* C6: a customer ID string is accepted iff its dash-stripped form is
\* exactly 10 digits, the stripped form is then the tenant scope, and a
\* stripped form of another length is rejected with an error citing that
\* length.
C6_AcceptedIffTenDigits ==
    vOut.done =>
        LET stripped == RemoveChar(vIn, "-")
            ten_digits == /\ Len(stripped) = 10
                          /\ \A i \in 1..Len(stripped) : IsDigit(stripped[i])
        IN  /\ vOut.ok <=> ten_digits
            /\ vOut.ok => vOut.scope = stripped
            /\ Len(stripped) # 10
                   => /\ ~vOut.ok
                      /\ vOut.error = "length"
                      /\ vOut.got = Len(stripped)

\* the text the guard appended
GuardSuffix == SubSeq(gOut.text, gLimit + 1, Len(gOut.text))

\* the guard left a short response alone and cut a long one to its first
\* gLimit characters
GuardCut ==
    IF Len(gResp) <= gLimit THEN gOut.text = gResp
    ELSE /\ Len(gOut.text) > gLimit
         /\ SubSeq(gOut.text, 1, gLimit) = SubSeq(gResp, 1, gLimit)

\* C8 as stated: a response no longer than the limit is returned unchanged;
\* a longer one comes back as its first B characters and a warning that
\* contains the decimal digits of the original length L and of B.
C8_Original ==
    gOut.done =>
        /\ GuardCut
        /\ Len(gResp) > gLimit
               => /\ Contains(GuardSuffix, DecimalString(Len(gResp)))
                  /\ Contains(GuardSuffix, DecimalString(gLimit))

\* C8: a response no longer than the limit is returned unchanged; a longer
\* one comes back as its first B characters followed by the warning, whose
\* length is that of its fixed wording plus the two numbers, and which
\* contains the original length L and B written with "," between groups of
\* three digits (the plain digits when the number is below 1,000).
C8_GuardExact ==
    gOut.done =>
        /\ GuardCut
        /\ Len(gResp) > gLimit
               => /\ Len(gOut.text) =
                         gLimit + Len(WarningHead) + Len(WarningTo)
                             + Len(WarningTail)
                             + Len(FormatThousands(Len(gResp)))
                             + Len(FormatThousands(gLimit))
                  /\ Contains(GuardSuffix, FormatThousands(Len(gResp)))
                  /\ Contains(GuardSuffix, FormatThousands(gLimit))
                  /\ Len(gResp) < 1000
                         => Contains(GuardSuffix, DecimalString(Len(gResp)))
                  /\ gLimit < 1000
                         => Contains(GuardSuffix, DecimalString(gLimit))
                  /\ Len(gResp) >= 1000
                         => Contains(FormatThousands(Len(gResp)), <<",">>)

\* a response one character over CHARACTER_LIMIT has been cut
C8_Witness ==
    /\ gOut.done
    /\ gLimit = CHARACTER_LIMIT
    /\ Len(gResp) = CHARACTER_LIMIT + 1
    /\ Len(gOut.text) > CHARACTER_LIMIT

(***************************************************************************)
(* Properties of the tool pipeline (Spec), continued                       *)
(***************************************************************************)

\* C11: within one invocation each remote request of the handler is sent at
\* most once: the calls made are, position by position, the handler's
\* requests, none repeated after it raised; and an invocation that returns
\* the rate-limit advice has stopped at the call that raised.
C11_NoRetry ==
    /\ Len(calls) <= Len(req.plan)
    /\ \A i \in 1..Len(calls) : calls[i].site = req.plan[i]
    /\ (pc = "done" /\ result.class = "rate_limit")
           => /\ calls # <<>>
              /\ calls[Len(calls)].outcome = "raised"
              /\ \A i \in 1..(Len(calls) - 1) : calls[i].outcome = "ok"

\* a single query raised a rate-limit error and the advice came back after
\* that one call
C11_Witness ==
    /\ pc = "done"
    /\ tool = "list_campaigns"
    /\ result = ErrorText("rate_limit")
    /\ Len(calls) = 1
    /\ calls[1].outcome = "raised"


\* C12: an invocation in which a remote call raised never returns a
\* success result: the returned text is the report of that failure.
C12_NothingSwallowed ==
    (pc = "done" /\ \E i \in 1..Len(calls) : calls[i].outcome = "raised")
    => result.class # "success"


(***************************************************************************)
(* _handle_google_ads_error on its own (SpecClassify)                      *)
(***************************************************************************)

\* codes one exception text names in the model
MaxCodes == 2

\* failure messages one remote exception carries in the model
MaxMessages == 2

MessageTexts == {"m1", "m2"}

KindNames == {"KeyError", "UnboundLocalError"}

MessageLists ==
    UNION {[1..n -> MessageTexts] : n \in 0..MaxMessages}

\* the exceptions the handler is given: a GoogleAdsException whose text
\* names some codes and whose failure carries some messages, a ValueError,
\* or an exception of another kind
ClassifyInputs ==
    {[type |-> "GoogleAdsException", codes |-> cs, messages |-> ms,
      name |-> "GoogleAdsException", text |-> "m1"] :
        cs \in {c \in SUBSET ErrorCodes : Cardinality(c) <= MaxCodes},
        ms \in MessageLists}
    \cup {[type |-> "ValueError", codes |-> {}, messages |-> <<>>,
           name |-> "ValueError", text |-> t] : t \in MessageTexts}
    \cup {[type |-> "Other", codes |-> {}, messages |-> <<>>,
           name |-> n, text |-> t] : n \in KindNames, t \in MessageTexts}

\* the text of the message _handle_google_ads_error returns, as its parts:
\* a fixed sentence for a recognised code, "Error from Google Ads API:" and
\* one "- message" line per failure otherwise, "Error: " and str(error) for
\* a ValueError, the kind name and str(error) for anything else
handle_google_ads_error_text(error) ==
    LET class == handle_google_ads_error(error)
    IN  IF class = "generic"
        THEN <<"Error from Google Ads API:">>
                 \o [i \in 1..Len(error.messages) |->
                        <<"- ", error.messages[i]>>]
        ELSE IF class = "value_error" THEN <<"Error: ", error.text>>
        ELSE IF class = "unexpected"
        THEN <<"Error: Unexpected error occurred - ", error.name, ": ",
               error.text>>
        ELSE <<class>>

InitClassify ==
    /\ eIn \in ClassifyInputs
    /\ eOut = [done |-> FALSE]
    /\ PipeIdle /\ AssetsIdle /\ CreateIdle /\ ValidateIdle /\ GuardIdle
    /\ ReportIdle /\ MetricIdle /\ PageIdle /\ LaterIdle

Classify ==
    /\ ~eOut.done
    /\ eOut' = [done |-> TRUE, class |-> handle_google_ads_error(eIn),
                text |-> handle_google_ads_error_text(eIn)]
    /\ UNCHANGED <<eIn, pipeVars, assetVars, createVars, validateVars,
                   guardVars, reportVars, metricVars, pageVars,
                   laterVars>>

NextClassify == Classify

SpecClassify == InitClassify /\ [][NextClassify]_vars

\* the classes in the order the claim gives them, each with the codes that
\* select it
ClaimedOrder ==
    <<[class |-> "authentication", codes |-> {"AUTHENTICATION_ERROR"}],
      [class |-> "authorization", codes |-> {"AUTHORIZATION_ERROR"}],
      [class |-> "rate_limit", codes |-> {"RATE_EXCEEDED", "RESOURCE_EXHAUSTED"}],
      [class |-> "not_found", codes |-> {"NOT_FOUND", "RESOURCE_NOT_FOUND"}],
      [class |-> "budget", codes |-> {"BUDGET_ERROR"}]>>

\* the same with the invalid-customer-id class the code tests for between
\* rate-limit and not-found
ActualOrder ==
    SubSeq(ClaimedOrder, 1, 3)
        \o <<[class |-> "invalid_customer_id", codes |-> {"INVALID_CUSTOMER_ID"}]>>
        \o SubSeq(ClaimedOrder, 4, 5)

\* the class of the first entry of the order one of whose codes the
\* exception names, "generic" when there is none
FirstMatch(order, codes) ==
    LET hits == {i \in 1..Len(order) : order[i].codes \cap codes # {}}
    IN  IF hits = {} THEN "generic"
        ELSE order[CHOOSE i \in hits : \A j \in hits : i <= j].class

\* what the message says for the classes that carry the exception's own text
ClassifiedText ==
    /\ eOut.class = "generic"
           => /\ Len(eOut.text) = 1 + Len(eIn.messages)
              /\ \A i \in 1..Len(eIn.messages) :
                     eOut.text[i + 1] = <<"- ", eIn.messages[i]>>
    /\ eIn.type = "ValueError"
           => eOut.class = "value_error" /\ eOut.text = <<"Error: ", eIn.text>>
    /\ eIn.type = "Other"
           => /\ eOut.class = "unexpected"
              /\ eOut.text[2] = eIn.name /\ eOut.text[4] = eIn.text

\* C13 as stated: a remote exception is classified by the first matching
\* code in the order authentication, authorization, rate-limit, not-found,
\* budget, otherwise generic with all its messages; a ValueError gives the
\* validation message; anything else the unexpected-failure message.
C13_Original ==
    eOut.done =>
        /\ eIn.type = "GoogleAdsException"
               => eOut.class = FirstMatch(ClaimedOrder, eIn.codes)
        /\ ClassifiedText

\* C13: every exception gets exactly one class: a remote exception by the
\* first matching code in the order authentication, authorization,
\* rate-limit, invalid-customer-id, not-found, budget, otherwise generic
\* (every failure message it carries, one per line); a ValueError the
\* validation message; anything else the unexpected-failure message with
\* its kind name and message.
C13_Classification ==
    eOut.done =>
        /\ eIn.type = "GoogleAdsException"
               => eOut.class = FirstMatch(ActualOrder, eIn.codes)
        /\ ClassifiedText

\* an exception naming both INVALID_CUSTOMER_ID and NOT_FOUND has been
\* classified
C13_Witness ==
    /\ eOut.done
    /\ eIn.codes = {"INVALID_CUSTOMER_ID", "NOT_FOUND"}
    /\ eOut.class = "invalid_customer_id"


(***************************************************************************)
(* The asset-performance report (SpecReport)                               *)
(***************************************************************************)

\* mutant: the sections are gone through in alphabetical order
REPORT_LABELS_alphabetical ==
    <<"BEST", "GOOD", "LEARNING", "LOW", "PENDING", "UNKNOWN">>

\* for label in ["BEST", "GOOD", "LOW", "LEARNING", "PENDING", "UNKNOWN"]
REPORT_LABELS == <<"BEST", "GOOD", "LOW", "LEARNING", "PENDING", "UNKNOWN">>

\* by_label[label][:20]
SECTION_CAP == 20

\* what a row holds as its performance label: a name of the remote's enum
\* (UNSPECIFIED is its value for a label that is not set), or no such
\* attribute at all
RowLabels ==
    {"BEST", "GOOD", "LOW", "LEARNING", "PENDING", "UNKNOWN", "UNSPECIFIED",
     "absent"}

\* rows of the short results of the model
MaxShortRows == 3

\* rows past the section cap in the long results of the model
MaxExtraRows == 6

\* a long result: every row of one label, but each fifth of another
LongRows(n, label, fifth) ==
    [i \in 1..n |-> IF i % 5 = 0 THEN fifth ELSE label]

AssetRowInputs ==
    UNION {[1..n -> RowLabels] : n \in 0..MaxShortRows}
    \cup {LongRows(n, l, f) :
            n \in (SECTION_CAP - 1)..(SECTION_CAP + MaxExtraRows),
            l \in {"BEST", "absent"}, f \in {"BEST", "LOW", "UNSPECIFIED"}}

\* "performance_label": aga.performance_label.name if hasattr(...) else
\* "UNKNOWN"; the asset keeps its place in the result as its id
collect_assets(results) ==
    [i \in 1..Len(results) |->
        [asset_id |-> i,
         performance_label |-> IF results[i] = "absent" THEN "UNKNOWN"
                               ELSE results[i]]]

RECURSIVE SelectLabel(_, _)
\* by_label[label]: the assets of a label, in arrival order
SelectLabel(assets, label) ==
    IF assets = <<>> THEN <<>>
    ELSE IF Head(assets).performance_label = label
    THEN <<Head(assets)>> \o SelectLabel(Tail(assets), label)
    ELSE SelectLabel(Tail(assets), label)

\* mutant: a section shows the last items of its group
section_items_last(group) ==
    IF Len(group) <= SECTION_CAP THEN group
    ELSE SubSeq(group, Len(group) - SECTION_CAP + 1, Len(group))

\* by_label[label][:20]
section_items(group) ==
    IF Len(group) <= SECTION_CAP THEN group
    ELSE SubSeq(group, 1, SECTION_CAP)

RECURSIVE PresentLabels(_, _)
\* the labels of the fixed list that have a group, in the list's order
PresentLabels(labels, assets) ==
    IF labels = <<>> THEN <<>>
    ELSE IF SelectLabel(assets, Head(labels)) # <<>>
    THEN <<Head(labels)>> \o PresentLabels(Tail(labels), assets)
    ELSE PresentLabels(Tail(labels), assets)

\* the narrative report: the "Found" line, the summary lines and the
\* sections with their items
markdown_report(assets) ==
    LET shown == PresentLabels(REPORT_LABELS, assets)
    IN  [format |-> "markdown",
         found |-> Len(assets),
         summary |-> [k \in 1..Len(shown) |->
                         [label |-> shown[k],
                          count |-> Len(SelectLabel(assets, shown[k]))]],
         sections |-> [k \in 1..Len(shown) |->
                          [label |-> shown[k],
                           items |-> section_items(
                                         SelectLabel(assets, shown[k]))]]]

\* the structured report: total, assets and summary_by_label over the
\* labels that occur
json_report(assets) ==
    LET occurring == {assets[i].performance_label : i \in 1..Len(assets)}
    IN  [format |-> "json",
         total |-> Len(assets),
         assets |-> assets,
         summary_by_label |-> [l \in occurring |->
                                  Len(SelectLabel(assets, l))]]

InitReport ==
    /\ aRows \in AssetRowInputs
    /\ aReport = [done |-> FALSE]
    /\ PipeIdle /\ AssetsIdle /\ CreateIdle /\ ValidateIdle /\ GuardIdle
    /\ ClassifyIdle /\ MetricIdle /\ PageIdle /\ LaterIdle

\* from the rows to the returned report, in the requested format
BuildReport ==
    /\ ~aReport.done
    /\ \E fmt \in {"markdown", "json"} :
        aReport' =
            IF aRows = <<>>
            THEN [done |-> TRUE, empty |-> TRUE, format |-> fmt]
            ELSE [done |-> TRUE, empty |-> FALSE, format |-> fmt,
                  body |-> IF fmt = "markdown"
                           THEN markdown_report(collect_assets(aRows))
                           ELSE json_report(collect_assets(aRows))]
    /\ UNCHANGED <<aRows, pipeVars, assetVars, createVars, validateVars,
                   guardVars, classifyVars, metricVars, pageVars,
                   laterVars>>

NextReport == BuildReport

SpecReport == InitReport /\ [][NextReport]_vars

\* a narrative report was built
NarrativeBuilt ==
    aReport.done /\ ~aReport.empty /\ aReport.format = "markdown"

\* the place of a label in the priority order of the claim
PriorityRank(label) ==
    CASE label = "BEST" -> 1
      [] label = "GOOD" -> 2
      [] label = "LOW" -> 3
      [] label = "LEARNING" -> 4
      [] label = "PENDING" -> 5
      [] label = "UNKNOWN" -> 6
      [] OTHER -> 7

\* rows of a label in the result, counting a missing label as UNKNOWN
RowsLabelled(label) ==
    {i \in 1..Len(aRows) :
        \/ aRows[i] = label
        \/ label = "UNKNOWN" /\ aRows[i] = "absent"}

\* C15: the sections of the narrative report come in the order BEST, GOOD,
\* LOW, LEARNING, PENDING, UNKNOWN whatever the arrival order of the rows,
\* and each section holds rows of its own label only.
C15_FixedGroupOrder ==
    NarrativeBuilt =>
        LET sections == aReport.body.sections
        IN  /\ \A j, k \in 1..Len(sections) :
                   j < k => PriorityRank(sections[j].label)
                                < PriorityRank(sections[k].label)
            /\ \A k \in 1..Len(sections) :
                   /\ PriorityRank(sections[k].label) <= 6
                   /\ \A n \in 1..Len(sections[k].items) :
                          sections[k].items[n].asset_id
                              \in RowsLabelled(sections[k].label)
            /\ \A l \in {"BEST", "GOOD", "LOW", "LEARNING", "PENDING",
                         "UNKNOWN"} :
                   RowsLabelled(l) # {}
                       => \E k \in 1..Len(sections) : sections[k].label = l

\* rows LOW, BEST, BEST gave a BEST section of 2 items before a LOW section
\* of 1 item
C15_Witness ==
    /\ NarrativeBuilt
    /\ aRows = <<"LOW", "BEST", "BEST">>
    /\ Len(aReport.body.sections) = 2
    /\ aReport.body.sections[1].label = "BEST"
    /\ Len(aReport.body.sections[1].items) = 2
    /\ aReport.body.sections[2].label = "LOW"
    /\ Len(aReport.body.sections[2].items) = 1


RECURSIVE SumCounts(_)
\* the counts of the summary lines, added up
SumCounts(summary) ==
    IF summary = <<>> THEN 0
    ELSE Head(summary).count + SumCounts(Tail(summary))

\* C17: every row has a group: in the narrative report the counts of the
\* per-label summary add up to the reported total.
C17_SummaryCoversTotal ==
    NarrativeBuilt => SumCounts(aReport.body.summary) = aReport.body.found


(***************************************************************************)
(* Properties of the credentials (Spec)                                    *)
(***************************************************************************)

\* a required secret is missing from the environment of the server
SecretMissing == RequiredVars \ env # {}

MICROS_PER_UNIT == 1000000

\* rows of one result in the model
MaxMetricRows == 2

\* a metrics row of campaign_insights and of conversion_stats (conversions
\* and conversion values are whole numbers in the model)
MetricRows ==
    [impressions : {0, 1000}, clicks : {0, 50}, cost_micros : {0, 50000000},
     conversions : {0, 5}, conversions_value : {0, 200}]

\* a row of budget_utilization: one campaign on one day
BudgetRows ==
    [campaign_id : {1, 2}, daily_budget_micros : {0, 50000000},
     cost_micros : {0, 20000000}]

MetricInputs ==
    [kind : {"campaign_insights", "conversion_stats"},
     fmt : {"markdown", "json"},
     rows : UNION {[1..n -> MetricRows] : n \in 1..MaxMetricRows}]
    \cup [kind : {"budget_utilization"}, fmt : {"markdown", "json"},
          rows : UNION {[1..n -> BudgetRows] : n \in 1..MaxMetricRows}]
    \cup [kind : {"budget_change"}, fmt : {"markdown", "json"},
          old_budget_micros : {0, 50000000},
          new_budget_micros : {1000000, 50000000, 75000000}]

\* the literal 0 of an else branch
Zero == [kind |-> "zero"]

\* num / den as Python evaluates it (num is a number, a quotient, or the
\* quotients a sum is made of)
Quotient(num, den) ==
    IF den = 0 THEN [kind |-> "ZeroDivisionError"]
    ELSE [kind |-> "quotient", num |-> num, den |-> den]

\* mutant: the division is made whatever the denominator
ratio_or_zero_unguarded(num, den) == Quotient(num, den)

\* (num / den) if den > 0 else 0
ratio_or_zero(num, den) == IF den > 0 THEN Quotient(num, den) ELSE Zero

RECURSIVE SumField(_, _)
\* total += row.field, over the rows
SumField(rows, field) ==
    IF rows = <<>> THEN 0
    ELSE Head(rows)[field] + SumField(Tail(rows), field)

\* f"{amount:,.2f}" of amount = micros / 1_000_000
format_amount(micros) ==
    LET cents == (micros + 5000) \div 10000
        frac == cents % 100
    IN  FormatThousands(cents \div 100) \o <<".">>
        \o (IF frac < 10 THEN <<"0">> ELSE <<>>) \o DecimalString(frac)

\* _format_money_micros
format_money_micros(micros) == <<"U", "S", "D", " ">> \o format_amount(micros)

\* a derived ratio of a report: its name, its denominator, its value and
\* the factor the quotient is multiplied by (100 for a percentage)
Ratio(name, num, den, times) ==
    [name |-> name, den |-> den, times |-> times,
     value |-> ratio_or_zero(num, den)]

\* a total of money values: what was added up, in which unit the addends
\* were, and how it is shown
MoneySum(name, unit, micros) ==
    [name |-> name, unit |-> unit, shown |-> format_amount(micros)]

\* google_ads_get_campaign_insights: totals in micros, then the ratios
campaign_insights(rows) ==
    LET impressions == SumField(rows, "impressions")
        clicks == SumField(rows, "clicks")
        cost_micros == SumField(rows, "cost_micros")
        conversions == SumField(rows, "conversions")
        conversions_value == SumField(rows, "conversions_value")
    IN  [ratios |->
            <<Ratio("ctr", clicks, impressions, 100),
              Ratio("avg_cpc", cost_micros, clicks, 1),
              Ratio("conversion_rate", conversions, clicks, 100),
              Ratio("cost_per_conversion", cost_micros, conversions, 1),
              Ratio("roas", conversions_value * MICROS_PER_UNIT, cost_micros,
                    1)>>,
         sums |-> {MoneySum("cost", "micros", cost_micros)}]

RECURSIVE Flatten(_)
\* the sequences of a sequence, one after the other
Flatten(seqs) ==
    IF seqs = <<>> THEN <<>> ELSE Head(seqs) \o Flatten(Tail(seqs))

\* google_ads_get_conversion_stats: cost is divided by 1_000_000 row by
\* row and the quotients are added up; the ratios are those of the
\* narrative report
conversion_stats(rows, fmt) ==
    LET conversions == SumField(rows, "conversions")
        value == SumField(rows, "conversions_value")
        cost == SumField(rows, "cost_micros")
        clicks == SumField(rows, "clicks")
    IN  [ratios |->
            IF fmt = "markdown"
            THEN <<Ratio("avg_cpa", cost, conversions * MICROS_PER_UNIT, 1),
                   Ratio("roas", value * MICROS_PER_UNIT, cost, 1),
                   Ratio("conv_rate", conversions, clicks, 100)>>
                 \o Flatten([i \in 1..Len(rows) |->
                    <<Ratio("cpa", rows[i].cost_micros,
                            rows[i].conversions * MICROS_PER_UNIT, 1),
                      Ratio("campaign_roas",
                            rows[i].conversions_value * MICROS_PER_UNIT,
                            rows[i].cost_micros, 1)>>])
            ELSE <<>>,
         sums |-> {MoneySum("cost", "major", cost)}]

RECURSIVE FirstSeen(_, _)
\* the campaign ids of the rows in the order they are first met, which is
\* the order of campaign_data
FirstSeen(rows, seen) ==
    IF rows = <<>> THEN <<>>
    ELSE IF Head(rows).campaign_id \in seen THEN FirstSeen(Tail(rows), seen)
    ELSE <<Head(rows).campaign_id>>
         \o FirstSeen(Tail(rows), seen \cup {Head(rows).campaign_id})

\* campaign_data[cid] of google_ads_get_budget_utilization
CampaignData(rows, cid) ==
    LET own == SelectSeq(rows, LAMBDA r : r.campaign_id = cid)
    IN  [daily_budget_micros |-> Head(own).daily_budget_micros,
         total_cost_micros |-> SumField(own, "cost_micros"),
         days |-> Len(own)]

\* google_ads_get_budget_utilization: a campaign's cost is added up in
\* micros; the narrative report then adds up the campaigns' budgets and
\* spends after their division by 1_000_000, and the structured report
\* reads avg_utilization, which only the narrative branch assigns
budget_utilization(rows, fmt) ==
    LET cids == {rows[i].campaign_id : i \in 1..Len(rows)}
        order == FirstSeen(rows, {})
        data == [c \in cids |-> CampaignData(rows, c)]
        days(c) == IF data[c].days > 1 THEN data[c].days ELSE 1
        total_budget ==
            SumField([i \in 1..Len(rows) |->
                        IF \A j \in 1..(i - 1) :
                               rows[j].campaign_id # rows[i].campaign_id
                        THEN [b |-> rows[i].daily_budget_micros]
                        ELSE [b |-> 0]], "b")
        avg_daily_spend == [c \in cids |->
                               Quotient(data[c].total_cost_micros, days(c))]
    IN  [ratios |->
            [k \in 1..Len(order) |->
                Ratio("utilization", avg_daily_spend[order[k]],
                      data[order[k]].daily_budget_micros, 100)]
            \o (IF fmt = "markdown"
                THEN <<Ratio("avg_utilization", avg_daily_spend,
                             total_budget, 100)>>
                ELSE <<>>),
         sums |-> {MoneySum("total_cost_micros", "micros",
                            data[c].total_cost_micros) : c \in cids}
                  \cup (IF fmt = "markdown"
                        THEN {MoneySum("total_budget", "major", total_budget)}
                        ELSE {MoneySum("total_daily_budget", "major",
                                       total_budget)}),
         raised |-> IF fmt = "json" THEN "UnboundLocalError" ELSE "none"]

\* google_ads_update_campaign_budget: the change and its percentage
budget_change(old_budget_micros, new_budget_micros) ==
    [ratios |-> <<Ratio("change_pct", new_budget_micros - old_budget_micros,
                        old_budget_micros, 100)>>,
     sums |-> {},
     shown |-> <<format_amount(old_budget_micros),
                 format_amount(new_budget_micros)>>]

\* the exception a handler's computation ends with, "none" if it returns
RaisedBy(body) ==
    IF \E k \in 1..Len(body.ratios) :
           body.ratios[k].value.kind = "ZeroDivisionError"
    THEN "ZeroDivisionError"
    ELSE IF "raised" \in DOMAIN body THEN body.raised ELSE "none"

InitMetric ==
    /\ mIn \in MetricInputs
    /\ mOut = [done |-> FALSE]
    /\ PipeIdle /\ AssetsIdle /\ CreateIdle /\ ValidateIdle /\ GuardIdle
    /\ ClassifyIdle /\ ReportIdle /\ PageIdle /\ LaterIdle

\* the handler computes its totals and ratios from the rows it got
ComputeMetrics ==
    /\ ~mOut.done
    /\ LET body ==
            CASE mIn.kind = "campaign_insights" -> campaign_insights(mIn.rows)
              [] mIn.kind = "conversion_stats"
                     -> conversion_stats(mIn.rows, mIn.fmt)
              [] mIn.kind = "budget_utilization"
                     -> budget_utilization(mIn.rows, mIn.fmt)
              [] mIn.kind = "budget_change"
                     -> budget_change(mIn.old_budget_micros,
                                      mIn.new_budget_micros)
       IN  mOut' = [done |-> TRUE, ratios |-> body.ratios,
                    sums |-> body.sums, raised |-> RaisedBy(body)]
    /\ UNCHANGED <<mIn, pipeVars, assetVars, createVars, validateVars,
                   guardVars, classifyVars, reportVars, pageVars,
                   laterVars>>

NextMetric == ComputeMetrics

SpecMetric == InitMetric /\ [][NextMetric]_vars

\* C18: a derived ratio whose denominator is zero is exactly 0, and no
\* ratio raises a division error; with a positive denominator it is the
\* quotient.
C18_ZeroDenominatorYieldsZero ==
    mOut.done =>
        /\ mOut.raised # "ZeroDivisionError"
        /\ \A k \in 1..Len(mOut.ratios) :
               LET r == mOut.ratios[k]
               IN  /\ r.den = 0 => r.value = Zero
                   /\ r.den > 0 => r.value.kind = "quotient"

\* campaign insights over rows with no impressions, clicks, conversions or
\* cost: all five ratios are 0
C18_Witness ==
    /\ mOut.done
    /\ mIn.kind = "campaign_insights"
    /\ Len(mOut.ratios) = 5
    /\ \A k \in 1..5 : mOut.ratios[k].den = 0 /\ mOut.ratios[k].value = Zero

\* C19: money is carried as whole micros and converted only when shown: no
\* total is made of values that were converted before they were added up.
C19_MicrosUntilRendered ==
    mOut.done => \A s \in mOut.sums : s.unit = "micros"


(***************************************************************************)
(* Pages of list_campaigns (SpecPage)                                      *)
(***************************************************************************)

\* campaign ids of an account in the model
MaxCampaigns == 5

\* limits and offsets asked for in the model
MaxLimit == 3

RECURSIVE OrderByIdDesc(_)
\* ORDER BY campaign.id DESC
OrderByIdDesc(ids) ==
    IF ids = {} THEN <<>>
    ELSE LET top == CHOOSE i \in ids : \A j \in ids : j <= i
         IN  <<top>> \o OrderByIdDesc(ids \ {top})

\* seq[n:] of Python
SliceFrom(seq, n) ==
    IF n >= Len(seq) THEN <<>> ELSE SubSeq(seq, n + 1, Len(seq))

\* the query's answer: the first `limit` campaigns by descending id
execute_campaign_query(ids, limit) ==
    LET ordered == OrderByIdDesc(ids)
    IN  IF Len(ordered) <= limit THEN ordered ELSE SubSeq(ordered, 1, limit)

\* google_ads_list_campaigns from the query's answer on: the offset is
\* applied to the rows the query returned
list_campaigns_page(ids, limit, offset, fmt) ==
    LET fetched == execute_campaign_query(ids, limit)
        results == IF offset > 0 THEN SliceFrom(fetched, offset) ELSE fetched
        has_more == Len(results) = limit
    IN  IF results = <<>>
        THEN [done |-> TRUE, empty |-> TRUE, campaigns |-> <<>>,
              has_more |-> FALSE, next_offset |-> -1]
        ELSE [done |-> TRUE, empty |-> FALSE, campaigns |-> results,
              has_more |-> has_more,
              next_offset |-> IF has_more THEN offset + limit ELSE -1]

PageInputs ==
    [kind : {"list_campaigns"}, ids : SUBSET (1..MaxCampaigns),
     limit : 1..MaxLimit, offset : 0..(MaxLimit + 1),
     fmt : {"markdown", "json"}]

InitPage ==
    /\ pIn \in PageInputs
    /\ pOut = [done |-> FALSE]
    /\ PipeIdle /\ AssetsIdle /\ CreateIdle /\ ValidateIdle /\ GuardIdle
    /\ ClassifyIdle /\ ReportIdle /\ MetricIdle /\ LaterIdle

\* the handler answers the request for one page
ListPage ==
    /\ ~pOut.done
    /\ pOut' = list_campaigns_page(pIn.ids, pIn.limit, pIn.offset, pIn.fmt)
    /\ UNCHANGED <<pIn, pipeVars, assetVars, createVars, validateVars,
                   guardVars, classifyVars, reportVars, metricVars,
                   laterVars>>

NextPage == ListPage

SpecPage == InitPage /\ [][NextPage]_vars

\* C20: with limit L and offset k the page holds the campaigns at positions
\* k..k+L-1 of the order by descending id, has_more is true exactly when
\* campaigns exist past the page, and the next offset is k + L.
C20_Pagination ==
    pOut.done =>
        LET ordered == OrderByIdDesc(pIn.ids)
            last == IF pIn.offset + pIn.limit <= Len(ordered)
                    THEN pIn.offset + pIn.limit ELSE Len(ordered)
            expected == IF pIn.offset >= Len(ordered) THEN <<>>
                        ELSE SubSeq(ordered, pIn.offset + 1, last)
        IN  /\ pOut.campaigns = expected
            /\ pOut.has_more <=> Len(ordered) > pIn.offset + pIn.limit
            /\ pOut.has_more => pOut.next_offset = pIn.offset + pIn.limit


(***************************************************************************)
(* set_campaign_schedule against the remote's criteria (SpecSchedule)      *)
(***************************************************************************)

earlierVars ==
    <<pipeVars, assetVars, createVars, validateVars, guardVars,
      classifyVars, reportVars, metricVars, pageVars>>

EarlierIdle ==
    /\ PipeIdle /\ AssetsIdle /\ CreateIdle /\ ValidateIdle /\ GuardIdle
    /\ ClassifyIdle /\ ReportIdle /\ MetricIdle /\ PageIdle

\* invocations for the same campaign that may be under way together
MaxSetters == 2

Setters == 1..MaxSetters

\* SetCampaignScheduleInput.days as callers send it here: no day, one,
\* two, and a day named twice
ScheduleDayLists ==
    {<<>>, <<"MONDAY">>, <<"MONDAY", "TUESDAY">>, <<"MONDAY", "MONDAY">>}

\* what a remote call of the tool raises here: a GoogleAdsException, or
\* an exception of another kind
ScheduleFailures == {GoogleAdsException({"REQUEST_ERROR"}), OtherExc}

\* start and end times callers ask for (minutes are 0, 15, 30 or 45)
ScheduleWindows ==
    {[start_hour |-> 9, start_minute |-> 0, end_hour |-> 17, end_minute |-> 0],
     [start_hour |-> 8, start_minute |-> 15, end_hour |-> 18,
      end_minute |-> 45]}

\* the names of client.enums.MinuteOfHourEnum
MinuteOfHourNames == {"ZERO", "FIFTEEN", "THIRTY", "FORTY_FIVE"}

\* f"{'ZERO' if minute == 0 else str(minute)}"
minute_name(minute) ==
    IF minute = 0 THEN "ZERO"
    ELSE IF minute = 15 THEN "15"
    ELSE IF minute = 30 THEN "30"
    ELSE "45"

\* getattr(client.enums.MinuteOfHourEnum, name) finds the name
minute_found(minute) == minute_name(minute) \in MinuteOfHourNames

\* a criterion the remote holds
Criterion(id, day, w) ==
    [id |-> id, day |-> day, start_hour |-> w.start_hour,
     start_minute |-> w.start_minute, end_hour |-> w.end_hour,
     end_minute |-> w.end_minute]

\* what the campaign holds before any invocation: nothing, or a Sunday
\* schedule
InitialCriteria ==
    {[held |-> {}, issued |-> 0],
     [held |-> {Criterion(1, "SUNDAY",
                          [start_hour |-> 0, start_minute |-> 0,
                           end_hour |-> 24, end_minute |-> 0])},
      issued |-> 1]}

SetterIdle ==
    [pc |-> "idle", days |-> <<>>, window |-> "none", existing |-> {},
     ret |-> "none"]

\* mutant: the existing schedules are not removed
schedule_operations_keep_existing(r) ==
    [removes |-> {},
     creates |-> [i \in 1..Len(r.days) |->
                     [day |-> r.days[i], window |-> r.window]]]

\* the operations list: a remove for each criterion read, then a create
\* for each requested day
schedule_operations(r) ==
    [removes |-> r.existing,
     creates |-> [i \in 1..Len(r.days) |->
                     [day |-> r.days[i], window |-> r.window]]]

\* the remote after it applied the operations of one mutate call
ApplyCriteria(remote, ops) ==
    [held |-> {c \in remote.held : c.id \notin ops.removes}
              \cup {Criterion(remote.issued + i, ops.creates[i].day,
                              ops.creates[i].window) :
                       i \in 1..Len(ops.creates)},
     issued |-> remote.issued + Len(ops.creates)]

InitSchedule ==
    /\ criteria \in InitialCriteria
    /\ setters = [c \in Setters |-> SetterIdle]
    /\ EarlierIdle /\ TasksIdle /\ QueryIdle /\ NegativeIdle

\* a caller invokes the tool (valid customer ID, client built)
SetInvoke(c) ==
    /\ setters[c].pc = "idle"
    /\ \E days \in ScheduleDayLists, w \in ScheduleWindows :
        setters' = [setters EXCEPT ![c] =
                       [SetterIdle EXCEPT !.pc = "search", !.days = days,
                                          !.window = w]]
    /\ UNCHANGED <<criteria, earlierVars, taskVars, queryVars, negativeVars>>

\* Step 1: googleads_service.search reads the criteria that are not removed
SetSearch(c) ==
    /\ setters[c].pc = "search"
    /\ \/ setters' = [setters EXCEPT ![c].pc = "build",
                         ![c].existing = {k.id : k \in criteria.held}]
       \/ \E error \in ScheduleFailures :
            setters' = [setters EXCEPT ![c].pc = "done",
                           ![c].ret = ToolBoundary(error).class]
    /\ UNCHANGED <<criteria, earlierVars, taskVars, queryVars, negativeVars>>

\* Steps 2 and 3 and the mutate call, which the remote applies as a whole
\* or not at all; a remove of a criterion that is gone may be refused
SetMutate(c) ==
    /\ setters[c].pc = "build"
    /\ LET r == setters[c]
           ops == schedule_operations(r)
       IN  IF r.days # <<>>
              /\ ~(minute_found(r.window.start_minute)
                   /\ minute_found(r.window.end_minute))
           THEN /\ setters' = [setters EXCEPT ![c].pc = "done",
                                  ![c].ret = ToolBoundary(OtherExc).class]
                /\ UNCHANGED criteria
           ELSE IF ops.removes = {} /\ ops.creates = <<>>
           THEN /\ setters' = [setters EXCEPT ![c].pc = "done",
                                  ![c].ret = "success"]
                /\ UNCHANGED criteria
           ELSE \/ /\ criteria' = ApplyCriteria(criteria, ops)
                   /\ setters' = [setters EXCEPT ![c].pc = "done",
                                     ![c].ret = "success"]
                \/ \E error \in ScheduleFailures :
                     /\ setters' = [setters EXCEPT ![c].pc = "done",
                                       ![c].ret = ToolBoundary(error).class]
                     /\ UNCHANGED criteria
    /\ UNCHANGED <<earlierVars, taskVars, queryVars, negativeVars>>

NextSchedule ==
    \E c \in Setters : SetInvoke(c) \/ SetSearch(c) \/ SetMutate(c)

SpecSchedule == InitSchedule /\ [][NextSchedule]_vars

\* the criteria held are the schedule the request asked for: one for each
\* entry of its day list, each with its times
HoldsScheduleOf(r) ==
    /\ Cardinality(criteria.held) = Len(r.days)
    /\ {k.day : k \in criteria.held} = {r.days[i] : i \in 1..Len(r.days)}
    /\ \A k \in criteria.held :
           /\ k.start_hour = r.window.start_hour
           /\ k.start_minute = r.window.start_minute
           /\ k.end_hour = r.window.end_hour
           /\ k.end_minute = r.window.end_minute

\* C21: when an invocation that ran alone returns success, the campaign's
\* schedules are exactly the requested ones, one per requested day with the
\* requested times, and none of the schedules it found is left.
C21_ScheduleReplaced ==
    \A c \in Setters :
        (/\ setters[c].pc = "done"
         /\ setters[c].ret = "success"
         /\ \A d \in Setters \ {c} : setters[d].pc = "idle")
        => /\ HoldsScheduleOf(setters[c])
           /\ \A k \in criteria.held : k.id \notin setters[c].existing

\* a campaign with a Sunday schedule was set to Monday and Tuesday
C21_Witness ==
    /\ setters[1].pc = "done"
    /\ setters[1].ret = "success"
    /\ setters[2].pc = "idle"
    /\ setters[1].existing = {1}
    /\ setters[1].days = <<"MONDAY", "TUESDAY">>
    /\ {k.day : k \in criteria.held} = {"MONDAY", "TUESDAY"}
    /\ Cardinality(criteria.held) = 2

\* C30: when two interleaved invocations for the same campaign have both
\* returned success, the campaign's schedules are those one of the two
\* asked for.
C30_Serializable ==
    (\A c \in Setters : setters[c].pc = "done" /\ setters[c].ret = "success")
    => \E c \in Setters : HoldsScheduleOf(setters[c])


(***************************************************************************)
(* Interleaved invocations and their locals (SpecTasks)                    *)
(***************************************************************************)

\* invocations under way together
MaxTasks == 2

TaskIds == 1..MaxTasks

\* rows the remote returns to one query
MaxTaskRows == 2

\* the remote's answers to the query of an invocation: rows by campaign id
TaskResponses == UNION {[1..n -> {1, 2}] : n \in 0..MaxTaskRows}

TaskIdle ==
    [pc |-> "idle", response_format |-> "none", results |-> <<>>,
     campaigns |-> <<>>, at |-> 0, text |-> "none"]

\* mutant: the record list is a module-level list that keeps what the
\* invocations under way have put in it
fresh_records_retained(others) ==
    IF others = <<>> THEN <<>> ELSE Head(others)

\* campaigns = []: the record list of an invocation is made in the call
fresh_records(others) == <<>>

\* the text of list_campaigns as a function of the request and the records
render_campaigns(response_format, campaigns) ==
    IF campaigns = <<>> THEN [kind |-> "empty"]
    ELSE [kind |-> response_format, count |-> Len(campaigns),
          ids |-> campaigns]

\* the record lists of the other invocations, as sequences
OtherRecords(t) ==
    LET others == {u \in TaskIds : u # t /\ tasks[u].campaigns # <<>>}
    IN  IF others = {} THEN <<>>
        ELSE <<tasks[CHOOSE u \in others : TRUE].campaigns>>

InitTasks ==
    /\ tasks = [t \in TaskIds |-> TaskIdle]
    /\ EarlierIdle /\ ScheduleIdle /\ QueryIdle /\ NegativeIdle

\* a caller invokes list_campaigns
TaskInvoke(t) ==
    /\ tasks[t].pc = "idle"
    /\ \E fmt \in {"markdown", "json"} :
        tasks' = [tasks EXCEPT ![t] =
                     [TaskIdle EXCEPT !.pc = "query",
                                      !.response_format = fmt]]
    /\ UNCHANGED <<earlierVars, scheduleVars, queryVars, negativeVars>>

\* results = _execute_query(...), then campaigns = []
TaskQuery(t) ==
    /\ tasks[t].pc = "query"
    /\ \E rows \in TaskResponses :
        tasks' = [tasks EXCEPT ![t].pc = "collect", ![t].results = rows,
                               ![t].campaigns = fresh_records(OtherRecords(t)),
                               ![t].at = 0]
    /\ UNCHANGED <<earlierVars, scheduleVars, queryVars, negativeVars>>

\* for row in results: campaigns.append({...})
TaskCollect(t) ==
    /\ tasks[t].pc = "collect"
    /\ tasks[t].at < Len(tasks[t].results)
    /\ tasks' = [tasks EXCEPT
                    ![t].campaigns =
                        Append(@, tasks[t].results[tasks[t].at + 1]),
                    ![t].at = @ + 1]
    /\ UNCHANGED <<earlierVars, scheduleVars, queryVars, negativeVars>>

\* the response is rendered from the invocation's own list and returned
TaskRender(t) ==
    /\ tasks[t].pc = "collect"
    /\ tasks[t].at = Len(tasks[t].results)
    /\ tasks' = [tasks EXCEPT ![t].pc = "done",
                    ![t].text = render_campaigns(tasks[t].response_format,
                                                 tasks[t].campaigns)]
    /\ UNCHANGED <<earlierVars, scheduleVars, queryVars, negativeVars>>

\* the text is delivered and nothing of the invocation is kept
TaskReturn(t) ==
    /\ tasks[t].pc = "done"
    /\ tasks' = [tasks EXCEPT ![t] = TaskIdle]
    /\ UNCHANGED <<earlierVars, scheduleVars, queryVars, negativeVars>>

NextTasks ==
    \E t \in TaskIds :
        \/ TaskInvoke(t)
        \/ TaskQuery(t)
        \/ TaskCollect(t)
        \/ TaskRender(t)
        \/ TaskReturn(t)

SpecTasks == InitTasks /\ [][NextTasks]_vars

\* C22: whatever other invocations are interleaved with it, the text an
\* invocation returns is the one its own parameters and the rows the
\* remote returned to it give; its record list holds its own rows only.
C22_NoSharedData ==
    \A t \in TaskIds :
        /\ tasks[t].pc = "collect"
               => tasks[t].campaigns = SubSeq(tasks[t].results, 1, tasks[t].at)
        /\ tasks[t].pc = "done"
               => tasks[t].text =
                      render_campaigns(tasks[t].response_format,
                                       tasks[t].results)

\* one invocation returned its own two rows while the other was in the
\* middle of collecting different rows
C22_Witness ==
    /\ tasks[1].pc = "done"
    /\ tasks[1].results = <<1, 2>>
    /\ tasks[1].text = [kind |-> "json", count |-> 2, ids |-> <<1, 2>>]
    /\ tasks[2].pc = "collect"
    /\ tasks[2].results = <<2, 2>>
    /\ tasks[2].at = 1


(***************************************************************************)
(* Negative keywords: level and companion id (SpecNegatives)               *)
(***************************************************************************)

\* an Optional[str] id as the caller sends it: left out (None), empty once
\* stripped, or given
OptionalIds ==
    {[given |-> FALSE, text |-> <<>>], [given |-> TRUE, text |-> <<>>],
     [given |-> TRUE, text |-> <<"7", "7">>]}

\* items (keywords or criterion ids) in the requests of the model
MaxNegativeItems == 2

NegativeRequests ==
    [kind : {"add_negative_keywords", "remove_negative_keywords"},
     customer_id : AssetCustomerIds,
     level : {"CAMPAIGN", "AD_GROUP"},
     campaign_id : OptionalIds,
     ad_group_id : OptionalIds,
     items : 0..MaxNegativeItems,
     creds : BOOLEAN]

\* not params.<id>
IdNotGiven(id) == ~id.given \/ id.text = <<>>

\* mutant: only the campaign id is looked at, whatever the level
companion_missing_campaign_only(level, campaign_id, ad_group_id) ==
    IF IdNotGiven(campaign_id) THEN "campaign_id" ELSE "none"

\* the companion field the level requires and the request lacks, "none"
\* when it is there
companion_missing(level, campaign_id, ad_group_id) ==
    IF level = "CAMPAIGN"
    THEN IF IdNotGiven(campaign_id) THEN "campaign_id" ELSE "none"
    ELSE IF IdNotGiven(ad_group_id) THEN "ad_group_id" ELSE "none"

\* the reply that ends the handler before its mutate call, or "go on"
negative_keywords_checks(r) ==
    IF r.items < 1 \/ ~SchemaCustomerId(r.customer_id).ok
    THEN [class |-> "schema"]
    ELSE IF ~validate_customer_id(SchemaCustomerId(r.customer_id).value).ok
    THEN [class |-> ToolBoundary(ValueErrorExc).class]
    ELSE IF ~get_google_ads_client(IF r.creds THEN RequiredVars ELSE {}).ok
    THEN [class |-> ToolBoundary(ValueErrorExc).class]
    ELSE IF companion_missing(r.level, r.campaign_id, r.ad_group_id) # "none"
    THEN [class |-> "companion_missing",
          missing |-> companion_missing(r.level, r.campaign_id,
                                        r.ad_group_id),
          level |-> r.level]
    ELSE [class |-> "go on"]

\* the mutate call of the level, with one operation for each item
negative_keywords_mutation(r) ==
    [service |-> IF r.level = "CAMPAIGN" THEN "mutate_campaign_criteria"
                 ELSE "mutate_ad_group_criteria",
     parent |-> IF r.level = "CAMPAIGN" THEN r.campaign_id
                ELSE r.ad_group_id,
     operations |-> r.items]

InitNegatives ==
    /\ nIn \in NegativeRequests
    /\ nOut = [done |-> FALSE]
    /\ EarlierIdle /\ ScheduleIdle /\ TasksIdle /\ QueryIdle

\* the request goes through the input model and the handler
NegativeCall ==
    /\ ~nOut.done
    /\ LET checked == negative_keywords_checks(nIn)
       IN  IF checked.class # "go on"
           THEN nOut' = [done |-> TRUE, reply |-> checked, mutations |-> <<>>]
           ELSE \/ nOut' = [done |-> TRUE, reply |-> [class |-> "success"],
                            mutations |-> <<negative_keywords_mutation(nIn)>>]
                \/ \E error \in RemoteExceptions :
                     nOut' = [done |-> TRUE,
                              reply |-> [class |-> ToolBoundary(error).class],
                              mutations |->
                                  <<negative_keywords_mutation(nIn)>>]
    /\ UNCHANGED <<nIn, earlierVars, scheduleVars, taskVars, queryVars>>

NextNegatives == NegativeCall

SpecNegatives == InitNegatives /\ [][NextNegatives]_vars

\* the request lacks the companion id of its level
LacksCompanion ==
    \/ nIn.level = "CAMPAIGN" /\ nIn.campaign_id.text = <<>>
    \/ nIn.level = "AD_GROUP" /\ nIn.ad_group_id.text = <<>>

\* C23: a request of level CAMPAIGN without campaign_id, or of level
\* AD_GROUP without ad_group_id, makes no mutate call; once it has passed
\* the validation of its single fields and the client is built, the reply
\* is the error naming the missing companion field and the level.
C23_CompanionRequired ==
    (nOut.done /\ LacksCompanion)
    => /\ nOut.mutations = <<>>
       /\ nOut.reply.class \in {"schema", "value_error", "companion_missing"}
       /\ (/\ nIn.items >= 1
           /\ validate_customer_id(nIn.customer_id).ok
           /\ nIn.creds)
          => /\ nOut.reply.class = "companion_missing"
             /\ nOut.reply.level = nIn.level
             /\ nOut.reply.missing = IF nIn.level = "CAMPAIGN"
                                     THEN "campaign_id" ELSE "ad_group_id"

\* a remove request of level AD_GROUP that gave a campaign id only was
\* answered with the ad_group_id message and made no call
C23_Witness ==
    /\ nOut.done
    /\ nIn.kind = "remove_negative_keywords"
    /\ nIn.level = "AD_GROUP"
    /\ ~nIn.ad_group_id.given
    /\ nIn.campaign_id.text = <<"7", "7">>
    /\ nOut.reply = [class |-> "companion_missing", missing |-> "ad_group_id",
                     level |-> "AD_GROUP"]
    /\ nOut.mutations = <<>>


(***************************************************************************)
(* Query text of the read tools (SpecQuery)                                *)
(*                                                                         *)
(* A query is a sequence of tokens from WHERE on.  A string parameter is   *)
(* the sequence of tokens the caller wrote; an integer parameter is the    *)
(* token Python formats it to ("None" for null).                           *)
(***************************************************************************)

\* a plain id
BenignValue == <<"123">>

\* an Optional[str] parameter: left out or empty (<<>>), a plain id, text
\* with a connective in it, text with a quote in it
StringValues ==
    {<<>>, BenignValue, <<"1", "OR", "campaign.id", "!=", "0">>,
     <<"x", "'", "OR", "asset.type", "!=", "'", "y">>}

\* a List[str] parameter: left out, or a list of such strings
StringLists ==
    {<<>>, <<BenignValue>>, <<BenignValue, BenignValue>>,
     <<<<"1", ")", "OR", "campaign.id", "NOT", "IN", "(", "0">>>>}

\* limit as Python formats it: a number, or None when the caller sent null
LimitValues == {"20", "None"}

\* min_impressions: null, 0, or a positive number
ThresholdValues == {"None", "0", "1"}

QueryRequests ==
    [tool : {"get_asset_performance"}, campaign_id : StringValues \ {<<>>},
     asset_group_id : StringValues, asset_type_filter : StringValues,
     date_range : {"LAST_30_DAYS"}, min_impressions : ThresholdValues,
     limit : LimitValues]
    \cup [tool : {"get_policy_issues_ads", "get_policy_issues_assets"},
          campaign_id : StringValues]
    \cup [tool : {"get_search_terms"}, campaign_id : StringValues,
          ad_group_id : StringValues, date_range : {"LAST_30_DAYS"},
          min_impressions : ThresholdValues, limit : LimitValues]
    \cup [tool : {"list_campaigns"}, status_filter : {<<>>, <<"ENABLED">>},
          limit : LimitValues]
    \cup [tool : {"get_keyword_quality_scores"}, campaign_id : StringValues,
          ad_group_id : StringValues, min_impressions : ThresholdValues,
          limit : LimitValues]
    \cup [tool : {"list_negative_keywords_campaign",
                  "list_negative_keywords_ad_group"},
          campaign_id : StringValues, ad_group_id : StringValues,
          limit : LimitValues]
    \cup [tool : {"list_recommendations"}, campaign_id : StringValues,
          recommendation_types : StringLists, limit : LimitValues]
    \cup [tool : {"get_budget_utilization"}, campaign_ids : StringLists,
          date_range : {"LAST_7_DAYS"}]

RECURSIVE JoinWith(_, _)
\* sep.join(parts)
JoinWith(parts, sep) ==
    IF parts = <<>> THEN <<>>
    ELSE IF Len(parts) = 1 THEN Head(parts)
    ELSE Head(parts) \o sep \o JoinWith(Tail(parts), sep)

\* f"'{value}'"
Quoted(value) == <<"'">> \o value \o <<"'">>

\* a clause appended when the parameter is truthy
WhenGiven(value, clause) == IF value # <<>> THEN <<clause>> ELSE <<>>

\* _format_date_range
format_date_range(preset) == <<"segments.date", "DURING", preset>>

ApprovalClause(field) ==
    <<field, "IN", "(", "'", "DISAPPROVED", "'", ",", "'",
      "APPROVED_LIMITED", "'", ",", "'", "AREA_OF_INTEREST_ONLY", "'", ")">>

\* the query text each tool sends, from WHERE on; raised is the exception
\* the building of it ends with, "none" if there is a query
build_query(r) ==
    CASE r.tool = "get_asset_performance" ->
           [raised |-> "none",
            query |-> <<"WHERE">>
               \o JoinWith(<<<<"campaign.id", "=">> \o r.campaign_id>>
                           \o WhenGiven(r.asset_group_id,
                                  <<"asset_group.id", "=">> \o r.asset_group_id)
                           \o WhenGiven(r.asset_type_filter,
                                  <<"asset.type", "=">>
                                  \o Quoted(r.asset_type_filter)),
                           <<"AND">>)
               \o <<"LIMIT", r.limit>>]
      [] r.tool = "get_policy_issues_ads" ->
           [raised |-> "none",
            query |-> <<"WHERE">>
               \o ApprovalClause("ad_group_ad.policy_summary.approval_status")
               \o (IF r.campaign_id # <<>>
                   THEN <<"AND", "campaign.id", "=">> \o r.campaign_id
                   ELSE <<>>)]
      [] r.tool = "get_policy_issues_assets" ->
           [raised |-> "none",
            query |-> <<"WHERE">>
               \o ApprovalClause("asset.policy_summary.approval_status")]
      [] r.tool = "get_search_terms" ->
           [raised |-> "none",
            query |-> <<"WHERE">>
               \o JoinWith(<<format_date_range(r.date_range)>>
                           \o WhenGiven(r.campaign_id,
                                  <<"campaign.id", "=">> \o r.campaign_id)
                           \o WhenGiven(r.ad_group_id,
                                  <<"ad_group.id", "=">> \o r.ad_group_id)
                           \o (IF r.min_impressions \notin {"None", "0"}
                               THEN <<<<"metrics.impressions", ">=",
                                        r.min_impressions>>>>
                               ELSE <<>>),
                           <<"AND">>)
               \o <<"ORDER", "BY", "metrics.impressions", "DESC",
                    "LIMIT", r.limit>>]
      [] r.tool = "list_campaigns" ->
           [raised |-> "none",
            query |-> (IF r.status_filter # <<>>
                       THEN <<"WHERE", "campaign.status", "=">>
                            \o r.status_filter
                       ELSE <<>>)
               \o <<"ORDER", "BY", "campaign.id", "DESC", "LIMIT", r.limit>>]
      [] r.tool = "get_keyword_quality_scores" ->
           IF r.min_impressions = "None"
           THEN [raised |-> "TypeError", query |-> <<>>]
           ELSE [raised |-> "none",
                 query |-> <<"WHERE">>
                    \o JoinWith(<<<<"ad_group_criterion.status", "!=", "'",
                                    "REMOVED", "'">>>>
                                \o WhenGiven(r.campaign_id,
                                       <<"campaign.id", "=">> \o r.campaign_id)
                                \o WhenGiven(r.ad_group_id,
                                       <<"ad_group.id", "=">> \o r.ad_group_id)
                                \o (IF r.min_impressions # "0"
                                    THEN <<<<"metrics.impressions", ">=",
                                             r.min_impressions>>>>
                                    ELSE <<>>),
                                <<"AND">>)
                    \o <<"ORDER", "BY",
                         "ad_group_criterion.quality_info.quality_score",
                         "ASC", "LIMIT", r.limit>>]
      [] r.tool = "list_negative_keywords_campaign" ->
           [raised |-> "none",
            query |-> <<"WHERE", "campaign_criterion.type", "=", "'",
                        "KEYWORD", "'", "AND", "campaign_criterion.negative",
                        "=", "TRUE">>
               \o (IF r.campaign_id # <<>>
                   THEN <<"AND", "campaign.id", "=">> \o r.campaign_id
                   ELSE <<>>)
               \o <<"LIMIT", r.limit>>]
      [] r.tool = "list_negative_keywords_ad_group" ->
           [raised |-> "none",
            query |-> <<"WHERE", "ad_group_criterion.type", "=", "'",
                        "KEYWORD", "'", "AND", "ad_group_criterion.negative",
                        "=", "TRUE">>
               \o (IF r.campaign_id # <<>>
                   THEN <<"AND", "campaign.id", "=">> \o r.campaign_id
                   ELSE <<>>)
               \o (IF r.ad_group_id # <<>>
                   THEN <<"AND", "ad_group.id", "=">> \o r.ad_group_id
                   ELSE <<>>)
               \o <<"LIMIT", r.limit>>]
      [] r.tool = "list_recommendations" ->
           [raised |-> "none",
            query |-> <<"WHERE">>
               \o JoinWith(<<<<"recommendation.dismissed", "=", "FALSE">>>>
                           \o WhenGiven(r.campaign_id,
                                  <<"recommendation.campaign", "=">>
                                  \o Quoted(<<"customers/", "/campaigns/">>
                                            \o r.campaign_id))
                           \o (IF r.recommendation_types # <<>>
                               THEN <<<<"recommendation.type", "IN", "(">>
                                      \o JoinWith(
                                           [i \in 1..Len(r.recommendation_types)
                                              |-> Quoted(
                                                    r.recommendation_types[i])],
                                           <<",">>)
                                      \o <<")">>>>
                               ELSE <<>>),
                           <<"AND">>)
               \o <<"LIMIT", r.limit>>]
      [] r.tool = "get_budget_utilization" ->
           [raised |-> "none",
            query |-> <<"WHERE", "campaign.status", "!=", "'", "REMOVED", "'",
                        "AND">>
               \o format_date_range(r.date_range)
               \o (IF r.campaign_ids # <<>>
                   THEN <<"AND", "campaign.id", "IN", "(">>
                        \o JoinWith(r.campaign_ids, <<",">>) \o <<")">>
                   ELSE <<>>)]

InitQuery ==
    /\ qIn \in QueryRequests
    /\ qOut = [done |-> FALSE]
    /\ EarlierIdle /\ ScheduleIdle /\ TasksIdle /\ NegativeIdle

\* the handler builds the query it passes to _execute_query
BuildQuery ==
    /\ ~qOut.done
    /\ qOut' = [done |-> TRUE, raised |-> build_query(qIn).raised,
                query |-> build_query(qIn).query]
    /\ UNCHANGED <<qIn, earlierVars, scheduleVars, taskVars, negativeVars>>

NextQuery == BuildQuery

SpecQuery == InitQuery /\ [][NextQuery]_vars


RECURSIVE Unquoted(_, _)
\* the tokens of a query that stand outside quoted literals
Unquoted(tokens, inQuote) ==
    IF tokens = <<>> THEN <<>>
    ELSE IF Head(tokens) = "'" THEN Unquoted(Tail(tokens), ~inQuote)
    ELSE IF inQuote THEN Unquoted(Tail(tokens), inQuote)
    ELSE <<Head(tokens)>> \o Unquoted(Tail(tokens), inQuote)

CountToken(tokens, t) == Cardinality({i \in 1..Len(tokens) : tokens[i] = t})

\* the filter of a query: what stands between WHERE and ORDER BY / LIMIT
FilterPart(query) ==
    LET u == Unquoted(query, FALSE)
        stops == {i \in 1..Len(u) : u[i] \in {"ORDER", "LIMIT"}}
        last == IF stops = {} THEN Len(u)
                ELSE (CHOOSE i \in stops : \A j \in stops : i <= j) - 1
    IN  IF u # <<>> /\ Head(u) = "WHERE" THEN SubSeq(u, 2, last) ELSE <<>>

\* how many connectives join the filter's clauses
Connectives(query) ==
    CountToken(FilterPart(query), "AND") + CountToken(FilterPart(query), "OR")

StringParameters == {"campaign_id", "ad_group_id", "asset_group_id",
                     "asset_type_filter"}

ListParameters == {"recommendation_types", "campaign_ids"}

\* the same request with every given string replaced by a plain id
Plain(r) ==
    [f \in DOMAIN r |->
        IF f \in StringParameters /\ r[f] # <<>> THEN BenignValue
        ELSE IF f \in ListParameters
             THEN [i \in 1..Len(r[f]) |-> BenignValue]
             ELSE r[f]]

\* the optional filter parameters and the field each one filters on
FilterParameters == {"date_range", "campaign_id", "asset_group_id",
                     "asset_type_filter", "min_impressions"}

FilterField(name, p) ==
    CASE p = "date_range" -> "segments.date"
      [] p = "campaign_id" -> IF name = "list_recommendations"
                              THEN "recommendation.campaign"
                              ELSE "campaign.id"
      [] p = "asset_group_id" -> "asset_group.id"
      [] p = "asset_type_filter" -> "asset.type"
      [] p = "min_impressions" -> "metrics.impressions"

\* the request carries a value for the parameter
Present(r, p) ==
    /\ p \in DOMAIN r
    /\ CASE p = "date_range" -> TRUE
         [] p = "min_impressions" -> r[p] \notin {"None", "0"}
         [] OTHER -> r[p] # <<>>

QueryBuilt == qOut.done /\ qOut.raised = "none"

\* C24: for a request with plain ids, the filter of the query holds exactly
\* one clause on the field of every optional filter parameter that is
\* present (date range, campaign, asset group, asset type, minimum
\* impressions) and none on the field of a parameter that is absent.
C24_ClausePerParameter ==
    (QueryBuilt /\ Plain(qIn) = qIn) =>
        \A p \in FilterParameters \cap DOMAIN qIn :
            CountToken(FilterPart(qOut.query), FilterField(qIn.tool, p))
                = IF Present(qIn, p) THEN 1 ELSE 0

Dangling == {"AND", "ORDER", "LIMIT"}

\* C25: every request ends with a query, and the query has no WHERE without
\* a clause, no AND without a clause on each side, and no null where a
\* limit or a threshold is written.
C25_WellFormedQuery ==
    qOut.done =>
        /\ qOut.raised = "none"
        /\ \A i \in 1..Len(qOut.query) :
              /\ qOut.query[i] # "None"
              /\ qOut.query[i] \in {"WHERE", "AND"} =>
                    /\ i < Len(qOut.query)
                    /\ qOut.query[i + 1] \notin Dangling
              /\ qOut.query[i] = "AND" => qOut.query[i - 1] # "WHERE"

\* C26: what a string parameter holds cannot change how many clauses the
\* filter has: the query joins as many clauses as the query of the same
\* request with plain ids, and every quote it opens is closed.
C26_ContentCannotAddClauses ==
    QueryBuilt =>
        /\ Connectives(qOut.query) = Connectives(build_query(Plain(qIn)).query)
        /\ CountToken(qOut.query, "'") % 2 = 0

====
